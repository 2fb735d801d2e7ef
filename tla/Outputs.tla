------------------------------- MODULE Outputs -------------------------------
(***************************************************************************)
(* The execute_python tool of the MCP server. Every call runs its script   *)
(* in the _generated folder of the thread, takes a snapshot of the names   *)
(* there first, and at its end puts a time stamp before the new ones and   *)
(* reports them. Calls of one thread share the folder and hold no lock.    *)
(*                                                                         *)
(* An entry is a pair of a stamp, 0 for none, and a name. Entries are the  *)
(* regular files but .pyc, which the tool passes over, and of a file's     *)
(* content nothing is kept.                                                *)
(***************************************************************************)
EXTENDS Naturals

CONSTANTS
  Jobs,      \* one call of a job at a time
  Names,     \* names scripts give to files
  Stamps     \* seconds of the clock

ASSUME OutputsAssumption == Stamps \subseteq Nat \ {0}

VARIABLES
  folder,    \* entries of the folder
  calls,     \* jobs whose call runs
  before,    \* a call's snapshot
  \* history
  reported,  \* entries in the generated_files of some call
  made       \* pairs of a call and an entry it wrote, not in its snapshot nor reported yet

outputVars == <<folder, calls, before, reported, made>>

Entries == ({0} \cup Stamps) \X Names

OutputsTypeOK ==
  /\ folder \in SUBSET Entries
  /\ calls \in SUBSET Jobs
  /\ before \in [Jobs -> SUBSET Entries]
  /\ \A j \in Jobs \ calls : before[j] = {}
  /\ reported \in SUBSET (Stamps \X Names)
  /\ \A p \in made : p[1] \in Jobs /\ p[2] \in folder \ before[p[1]]

OutputsInit ==
  /\ folder = {}
  /\ calls = {}
  /\ before = [j \in Jobs |-> {}]
  /\ reported = {}
  /\ made = {}

-----------------------------------------------------------------------------
\* _is_already_prefixed
Prefixed(e) == e[1] # 0

\* The wrapper creates the folder, lists it and starts the script, unless the script's
\* imports or syntax are refused; then it writes nothing.
BeginCall(j) ==
  /\ j \notin calls
  /\ calls' = calls \cup {j}
  /\ before' = [before EXCEPT ![j] = folder]
  /\ UNCHANGED <<folder, reported, made>>

\* The script of j writes a file, whose name may carry a stamp of its own making.
Write(j, e) ==
  /\ j \in calls
  /\ folder' = folder \cup {e}
  /\ made' = IF e \in before[j] THEN made ELSE made \cup {<<j, e>>}
  /\ UNCHANGED <<calls, before, reported>>

\* Mutant: prefixed files are passed over, not reported.
RenameNewOutputsMutant(j, now) ==
  LET new == folder \ before[j]
      plain == {e \in new : ~Prefixed(e)}
      renamed == {<<now, e[2]>> : e \in plain}
  IN
  /\ folder' = (folder \ plain) \cup renamed
  /\ reported' = reported \cup renamed
  /\ made' = {p \in made : p[2] \notin plain \cup reported'}

\* _rename_new_outputs: new files get the second of _utc_ts and are reported;
\* files that have a stamp are reported as they are. A file of the new name is replaced.
RenameNewOutputs(j, now) ==
  LET new == folder \ before[j]
      plain == {e \in new : ~Prefixed(e)}
      renamed == {<<now, e[2]>> : e \in plain}
  IN
  /\ folder' = (folder \ plain) \cup renamed
  /\ reported' = reported \cup renamed \cup (new \ plain)
  /\ made' = {p \in made : p[2] \notin plain \cup reported'}

\* The script exited, failed or was stopped after its 60 s: the wrapper renames in any case.
EndCall(j) ==
  /\ j \in calls
  /\ \E now \in Stamps : RenameNewOutputs(j, now)
  /\ calls' = calls \ {j}
  /\ before' = [before EXCEPT ![j] = {}]

\* The MCP server drops the call with its client's connection, or dies: nothing is renamed.
LoseCall(j) ==
  /\ j \in calls
  /\ calls' = calls \ {j}
  /\ before' = [before EXCEPT ![j] = {}]
  /\ made' = {p \in made : p[1] # j}
  /\ UNCHANGED <<folder, reported>>

-----------------------------------------------------------------------------
\* A file that a call wrote under a name its snapshot lacks is reported, by this call or by
\* another one of the thread, before the call is over (execute_python.py:101-134,
\* 305-317). A call that overwrites a file of its snapshot reports nothing for it.
NewFilesReported ==
  \A p \in made : p[1] \in calls
=============================================================================
