------------------------------- MODULE Store -------------------------------
(***************************************************************************)
(* What storage.Store (storage/interface.go) promises its clients: every   *)
(* transaction works on a consistent snapshot, at most one write           *)
(* transaction is open at a time, its changes become visible all at once   *)
(* when it commits and not at all when it aborts, and the commit triggers  *)
(* run before another client can see the changes.                          *)
(*                                                                         *)
(* Base documents and policy modules are entries of one map.  The          *)
(* specification says nothing about locks or about how a transaction       *)
(* keeps its pending writes.                                               *)
(***************************************************************************)

CONSTANTS Clients, Keys, Values,
          Absent,     \* the value of an entry that does not exist
          NoView      \* the view of a client that has no transaction

Contents == [Keys -> Values \cup {Absent}]

VARIABLES committed,  \* the contents the last committed transaction left
          mode,       \* what each client is doing with the store
          view        \* the contents each open transaction works on

vars == <<committed, mode, view>>

\* "notifying": the transaction has committed and its triggers are running.
Modes == {"none", "reading", "writing", "notifying"}

Init ==
    /\ committed = [k \in Keys |-> Absent]
    /\ mode = [c \in Clients |-> "none"]
    /\ view = [c \in Clients |-> NoView]

\* A transaction starts from the committed contents.
Begin(c, m) ==
    /\ mode[c] = "none"
    /\ mode' = [mode EXCEPT ![c] = m]
    /\ view' = [view EXCEPT ![c] = committed]
    /\ UNCHANGED committed

BeginRead(c) ==
    /\ \A d \in Clients : mode[d] # "notifying"
    /\ Begin(c, "reading")

BeginWrite(c) ==
    /\ \A d \in Clients : mode[d] \notin {"writing", "notifying"}
    /\ Begin(c, "writing")

\* A write transaction changes one entry of its own view.
Modify(c, k, v) ==
    /\ mode[c] = "writing"
    /\ view' = [view EXCEPT ![c] = [@ EXCEPT ![k] = v]]
    /\ UNCHANGED <<committed, mode>>

\* The view becomes the committed contents, when nobody is reading.
Commit(c) ==
    /\ mode[c] = "writing"
    /\ \A d \in Clients : mode[d] # "reading"
    /\ committed' = view[c]
    /\ mode' = [mode EXCEPT ![c] = "notifying"]
    /\ UNCHANGED view

\* Every trigger has run: the transaction is over, and the readers in S that
\* waited for it start.
Publish(c, S) ==
    /\ mode[c] = "notifying"
    /\ \A d \in S : mode[d] = "none"
    /\ mode' = [d \in Clients |-> IF d = c THEN "none"
                                  ELSE IF d \in S THEN "reading" ELSE mode[d]]
    /\ view' = [d \in Clients |-> IF d = c THEN NoView
                                  ELSE IF d \in S THEN committed ELSE view[d]]
    /\ UNCHANGED committed

\* A reader is done, or a writer gives up.
Close(c) ==
    /\ mode[c] \in {"reading", "writing"}
    /\ mode' = [mode EXCEPT ![c] = "none"]
    /\ view' = [view EXCEPT ![c] = NoView]
    /\ UNCHANGED committed

Next ==
    \E c \in Clients :
        \/ BeginRead(c)
        \/ BeginWrite(c)
        \/ \E k \in Keys, v \in Values \cup {Absent} : Modify(c, k, v)
        \/ Commit(c)
        \/ \E S \in SUBSET Clients : Publish(c, S)
        \/ Close(c)

Spec == Init /\ [][Next]_vars
=============================================================================
