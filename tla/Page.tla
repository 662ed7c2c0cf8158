-------------------------------- MODULE Page --------------------------------
(***************************************************************************)
(* The upload page (cmd/portal/static/portal.js) over the progress tracker *)
(* of the server.  One page of one operator sends submissions one after    *)
(* another: the button is disabled while one is in flight, but a request   *)
(* that ended in a network error may still be worked on by the server when *)
(* the next is sent.  A timer polls GET /submit/progress; the answers to   *)
(* several polls may be under way at once and arrive in any order, those   *)
(* of an earlier submission included.                                      *)
(***************************************************************************)
EXTENDS Progress

CONSTANTS
    User,       \* the page's operator
    Polls       \* bound: polls under way at once

\* A poll: for which submission, what was answered, the row's token with "ok".
Poll == [by : Submissions, answer : {"asked", "ok", "notfound", "unauthorized"},
         row : Nat]

ASSUME PageAssumption ==
    /\ User \in Operators
    /\ \A s \in Submissions : OperatorOf[s] = User
    /\ None \notin Submissions \cup Poll

VARIABLES
    cur,        \* the submission whose request is in flight, None: button on
    sent,       \* submissions the page has sent
    refused,    \* those answered before the server reached Begin
    timer,      \* progressTimer: the submission it was started for, or None
    poll,       \* [Polls -> Poll \cup {None}]
    dead,       \* submissions whose session token has expired
    panel,      \* the token of the row #server-progress was last painted
                \* from, 0 once it is cleared and hidden
    alone       \* history: when cur was sent nothing of an earlier one was
                \* left, on the server or on its way to the page

pageVars == <<cur, sent, refused, timer, poll, dead, panel, alone>>
allVars == <<vars, pageVars>>

PageTypeOK ==
    /\ TypeOK
    /\ cur \in Submissions \cup {None} /\ timer \in Submissions \cup {None}
    /\ sent \subseteq Submissions /\ refused \subseteq sent /\ dead \subseteq sent
    /\ poll \in [Polls -> Poll \cup {None}]
    /\ panel \in Nat
    /\ alone \in BOOLEAN

PageInit ==
    /\ Init
    /\ cur = None /\ sent = {} /\ refused = {} /\ timer = None /\ dead = {}
    /\ poll = [p \in Polls |-> None]
    /\ panel = 0 /\ alone = FALSE

-----------------------------------------------------------------------------
(***************************************************************************)
(* The server.                                                             *)
(***************************************************************************)

\* The handler answers without Begin: no session, no slot, a body cut short.
Refuse(s) ==
    /\ s \in sent \ refused /\ gen[s] = 0
    /\ refused' = refused \cup {s}
    /\ UNCHANGED <<vars, cur, sent, timer, poll, dead, panel, alone>>

Serve(s) ==
    /\ \/ s \in sent \ refused /\ Begin(s)
       \/ Advance(s) \/ Done(s)
       \/ \E n \in 1 .. Size : ScanRead(s, n) \/ StoreRead(s, n)
       \/ \E to \in 0 .. Size : StoreSeek(s, to)
    /\ UNCHANGED pageVars

\* The token of s runs out.
Expire(s) ==
    /\ s \in sent \ dead
    /\ dead' = dead \cup {s}
    /\ UNCHANGED <<vars, cur, sent, refused, timer, poll, panel, alone>>

\* ProgressHandler: 401 for an expired session; tracker.Get, which evicts a
\* stale row; 404 without a row.
Stale == inflight[User] # None /\ clock - inflight[User].last > TTL

Reply(p, a, row) == poll' = [poll EXCEPT ![p].answer = a, ![p].row = row]

AnswerPoll(p) ==
    /\ poll[p] # None /\ poll[p].answer = "asked"
    /\ \/ poll[p].by \in dead /\ Reply(p, "unauthorized", 0) /\ UNCHANGED vars
       \/ poll[p].by \notin dead /\ Stale /\ Evict(User) /\ Reply(p, "notfound", 0)
       \/ /\ poll[p].by \notin dead /\ ~Stale /\ UNCHANGED vars
          /\ IF inflight[User] = None THEN Reply(p, "notfound", 0)
                                      ELSE Reply(p, "ok", inflight[User].gen)
    /\ UNCHANGED <<cur, sent, refused, timer, dead, panel, alone>>

-----------------------------------------------------------------------------
(***************************************************************************)
(* The page.                                                               *)
(***************************************************************************)

\* What is left of earlier submissions: one the server has yet to begin or
\* end, or a poll that is still under way.
Ended(s) == s \in refused \/ (gen[s] > 0 /\ s \notin active)

\* The server panel is cleared and hidden for the new submission.
FaultyCleared == panel
Cleared == 0

\* A click on the (enabled) button: the request is sent, any timer replaced.
Click(s) ==
    /\ cur = None /\ s \notin sent
    /\ cur' = s /\ sent' = sent \cup {s}
    /\ timer' = s /\ panel' = Cleared
    /\ alone' = ((\A t \in sent : Ended(t)) /\ \A p \in Polls : poll[p] = None)
    /\ UNCHANGED <<vars, refused, poll, dead>>

\* The timer fires: fetch("/submit/progress"), with the token it was given.
Ask(p) ==
    /\ timer # None /\ poll[p] = None
    /\ poll' = [poll EXCEPT ![p] = [by |-> timer, answer |-> "asked", row |-> 0]]
    /\ UNCHANGED <<vars, cur, sent, refused, timer, dead, panel, alone>>

\* Which answers end the polling.
FaultyEndsPolling(a) == a \in {"unauthorized", "notfound"}
EndsPolling(a) == a = "unauthorized"

\* An answer arrives.  One that paints is dropped when no timer runs.
Arrive(p) ==
    /\ poll[p] # None /\ poll[p].answer # "asked"
    /\ poll' = [poll EXCEPT ![p] = None]
    /\ timer' = IF EndsPolling(poll[p].answer) THEN None ELSE timer
    /\ panel' = IF poll[p].answer = "ok" /\ timer # None THEN poll[p].row
                                                         ELSE panel
    /\ UNCHANGED <<vars, cur, sent, refused, dead, alone>>

\* The fetch fails: the page keeps polling.
Lose(p) ==
    /\ poll[p] # None
    /\ poll' = [poll EXCEPT ![p] = None]
    /\ UNCHANGED <<vars, cur, sent, refused, timer, dead, panel, alone>>

\* The request ends, by its answer ("load") or by a network failure ("error",
\* "abort"): the polling stops and the button is enabled.
Stopped == None

Load ==
    /\ cur # None /\ Ended(cur)
    /\ cur' = None /\ timer' = Stopped /\ alone' = FALSE
    /\ UNCHANGED <<vars, sent, refused, poll, dead, panel>>

Break ==
    /\ cur # None
    /\ cur' = None /\ timer' = Stopped /\ alone' = FALSE
    /\ UNCHANGED <<vars, sent, refused, poll, dead, panel>>

PageNext ==
    \/ \E s \in Submissions : Refuse(s) \/ Serve(s) \/ Expire(s) \/ Click(s)
    \/ \E p \in Polls : AnswerPoll(p) \/ Ask(p) \/ Arrive(p) \/ Lose(p)
    \/ Load \/ Break
    \/ Tick /\ UNCHANGED pageVars

PageSpec == PageInit /\ [][PageNext]_allVars

-----------------------------------------------------------------------------
(***************************************************************************)
(* What the server panel shows while a submission is in flight is that     *)
(* submission's own progress, so its bytes have landed (portal.js: "The    *)
(* first answered poll is what proves the bytes landed"), however polls    *)
(* overtake each other, if nothing of an earlier submission was left when  *)
(* it was sent.  Without that condition it does not hold: the row is the   *)
(* operator's, and answers carry no trace of the poll they answer.         *)
(***************************************************************************)
PanelIsOwn ==
    alone /\ panel # 0 => panel = gen[cur]

(***************************************************************************)
(* The page polls for the submission in flight and for no other, and stops *)
(* before its end only when its session has expired ("every later poll     *)
(* would fail the same way"), under the same condition.                    *)
(***************************************************************************)
PollsWhileAlive ==
    /\ timer # None => timer = cur
    /\ alone /\ timer = None => cur \in dead
=============================================================================
