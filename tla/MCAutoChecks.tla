---------------------------- MODULE MCAutoChecks ----------------------------
EXTENDS AutoChecks

\* A line before the window, inside it, after it, or without a timestamp.
Lines == [size : 1 .. 3, ts : {0, 3, 6, None}]

LogsUpTo(n) ==
    [lines : UNION {[1 .. k -> Lines] : k \in 0 .. n},
     end : {"eof", "error"}, gzip : {TRUE}]

NotGzip == [lines |-> <<>>, end |-> "eof", gzip |-> FALSE]
Two(t, u) == [lines |-> <<[size |-> 1, ts |-> t], [size |-> 1, ts |-> u]>>,
              end |-> "eof", gzip |-> TRUE]
Plain == Two(0, 6)

AllLogs == LogsUpTo(3) \cup {NotGzip}

Good(n, l) ==
    [name |-> n, regular |-> TRUE, size |-> 2, magic |-> TRUE, broken |-> FALSE,
     log |-> l]
Whole(es) == [gzip |-> TRUE, entries |-> es, end |-> "eof"]

\* Every log, beside a few sentry logs, before or after them or alone.
ByContent ==
    UNION {{Whole(<<Good("validator", l), Good("metadata", Plain)>>),
            Whole(<<Good("metadata", Plain), Good("validator", l),
                    Good("sentry", NotGzip)>>)} : l \in AllLogs}
      \cup {Whole(<<Good("sentry", Two(t, u)), Good("validator", l),
                    Good("metadata", Plain)>>) :
               t, u \in {0, 6}, l \in AllLogs}

\* Every short archive of good entries and of entries with one thing wrong,
\* or just at a limit; longer ones of good entries.
Odd(n) ==
    LET g == Good(n, Plain)
    IN {g, [g EXCEPT !.regular = FALSE], [g EXCEPT !.magic = FALSE],
        [g EXCEPT !.broken = TRUE]}
       \cup {[g EXCEPT !.size = k] : k \in {1, 3, 4, 5}}
Entries ==
    UNION {Odd(n) : n \in Allowed} \cup {Good("other", Plain)}
ByShape ==
    [gzip : {TRUE}, end : {"eof"},
     entries : UNION {[1 .. k -> Entries] : k \in 0 .. 3}
                  \cup [1 .. 4 -> {Good(n, Plain) : n \in Allowed}]]
    \cup [gzip : BOOLEAN, end : {"eof", "error"},
          entries : {<<>>, <<Good("validator", Plain), Good("metadata", Plain)>>}]

At(a, announced, deadline, submitted) ==
    [archive |-> a, announced |-> announced, deadline |-> deadline,
     submitted |-> submitted]

\* Every time an archive may come at, in exercises of every length.
Smallest == Whole(<<Good("validator", Plain), Good("metadata", Plain)>>)
ByTime ==
    {At(Smallest, a, d, t) : a \in {0, 3}, d \in 1 .. 18, t \in 0 .. 18}

AllUploads ==
    {At(a, 0, 4, 1) : a \in ByContent \cup ByShape}
        \cup {u \in ByTime : Valid(u.announced, u.deadline)}
=============================================================================
