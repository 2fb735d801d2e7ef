----------------------------- MODULE SealedLog -----------------------------
(***************************************************************************)
(* What the job store promises a reader of a streamed answer: a log that   *)
(* is appended to and then sealed, and a reader that follows it and ends   *)
(* only after it has seen the seal, by taking the whole log. The Redis     *)
(* reads a reader makes on its way are not visible here.                   *)
(***************************************************************************)
EXTENDS Naturals, Sequences

CONSTANTS Ids, Items

VARIABLES
  log,     \* items appended so far
  seal,    \* "open" or "sealed"
  mark,    \* length of the log when it was last sealed
  reader,  \* "none", "reading", "closing", "done", "immediate", "closed"
  got,     \* what the reader has been given
  void     \* the log was wiped while being read: nothing is promised

vars == <<log, seal, mark, reader, got, void>>

Init ==
  /\ log = [i \in Ids |-> <<>>]
  /\ seal = [i \in Ids |-> "open"]
  /\ mark = [i \in Ids |-> 0]
  /\ reader = [i \in Ids |-> "none"]
  /\ got = [i \in Ids |-> <<>>]
  /\ void = [i \in Ids |-> FALSE]

Put(i) ==
  /\ \E x \in Items : log' = [log EXCEPT ![i] = Append(@, x)]
  /\ UNCHANGED <<seal, mark, reader, got, void>>

SealLog(i) ==
  /\ seal' = [seal EXCEPT ![i] = "sealed"]
  /\ mark' = [mark EXCEPT ![i] = Len(log[i])]
  /\ UNCHANGED <<log, reader, got, void>>

Unseal(i) ==
  /\ seal' = [seal EXCEPT ![i] = "open"]
  /\ UNCHANGED <<log, mark, reader, got, void>>

Wipe(i) ==
  /\ log' = [log EXCEPT ![i] = <<>>]
  /\ mark' = [mark EXCEPT ![i] = 0]
  /\ void' = [void EXCEPT ![i] = @ \/ reader[i] \in {"reading", "closing"}]
  /\ UNCHANGED <<seal, reader, got>>

\* A log that is already sealed is not read: its result is fetched instead.
Open(i) ==
  /\ reader[i] \in {"none", "closed"}
  /\ reader' = [reader EXCEPT ![i] = IF seal[i] = "sealed" THEN "immediate" ELSE "reading"]
  /\ got' = [got EXCEPT ![i] = <<>>]
  /\ void' = [void EXCEPT ![i] = FALSE]
  /\ UNCHANGED <<log, seal, mark>>

Rest(i) == SubSeq(log[i], Len(got[i]) + 1, Len(log[i]))

Read(i) ==
  /\ reader[i] = "reading"
  /\ got' = [got EXCEPT ![i] = @ \o Rest(i)]
  /\ UNCHANGED <<log, seal, mark, reader, void>>

SeeSeal(i) ==
  /\ reader[i] = "reading"
  /\ seal[i] = "sealed"
  /\ reader' = [reader EXCEPT ![i] = "closing"]
  /\ UNCHANGED <<log, seal, mark, got, void>>

End(i) ==
  /\ reader[i] = "closing"
  /\ reader' = [reader EXCEPT ![i] = "done"]
  /\ got' = [got EXCEPT ![i] = @ \o Rest(i)]
  /\ UNCHANGED <<log, seal, mark, void>>

Leave(i) ==
  /\ reader[i] \in {"reading", "closing"}
  /\ reader' = [reader EXCEPT ![i] = "closed"]
  /\ UNCHANGED <<log, seal, mark, got, void>>

Next == \E i \in Ids :
  \/ Put(i) \/ SealLog(i) \/ Unseal(i) \/ Wipe(i)
  \/ Open(i) \/ Read(i) \/ SeeSeal(i) \/ End(i) \/ Leave(i)

Spec == Init /\ [][Next]_vars
=============================================================================
