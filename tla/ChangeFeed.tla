----------------------------- MODULE ChangeFeed -----------------------------
(***************************************************************************)
(* What the store promises a client that follows Email/changes, without    *)
(* threads, files or locks: a view of the mailbox, a version, and a log in *)
(* which every version names exactly the ids that came and went with it    *)
(* and at least the ids whose content changed with it.  Replacing a        *)
(* message is the one change the feed does not announce ("rewriting an     *)
(* existing one does not" advance the counter, Store::put).  A restart may *)
(* come back with another view and another log, but never with a hole in   *)
(* the log.                                                                *)
(***************************************************************************)
EXTENDS ChangeLog

CONSTANTS Content, Absent

VARIABLES live, view, version, log

feedVars == <<live, view, version, log>>

View == [Ids -> {Absent} \cup Content]
Present(v) == {id \in Ids : v[id] # Absent}

\* The record says what became of the view.
Describes(rec, old, new) ==
    /\ rec.added   = Present(new) \ Present(old)
    /\ rec.removed = Present(old) \ Present(new)
    /\ rec.updated \subseteq Present(new)
    /\ \A id \in Present(old) \cap Present(new) :
           old[id] # new[id] => id \in rec.updated

FeedInit ==
    /\ live = TRUE
    /\ view = [id \in Ids |-> Absent]
    /\ version = 0
    /\ log = EmptyLog

Announce ==
    /\ live /\ live'
    /\ view' \in View
    /\ version' = version + 1
    /\ \E rec \in ChangeRecord :
           log' = Insert(log, version', rec) /\ Describes(rec, view, view')

Replace ==
    /\ live /\ live'
    /\ view' \in View
    /\ Present(view') = Present(view)
    /\ UNCHANGED <<version, log>>

Fail == live /\ ~live'

Restart ==
    /\ ~live /\ live'
    /\ view' \in View
    /\ version' \in Nat
    /\ DOMAIN log' = 1 .. version'

FeedNext == Announce \/ Replace \/ Fail \/ Restart

FeedSpec == FeedInit /\ [][FeedNext]_feedVars

=============================================================================
