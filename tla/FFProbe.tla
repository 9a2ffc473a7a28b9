------------------------------ MODULE FFProbe -------------------------------
(***************************************************************************)
(* FFProbeDigest of sump.h: for each file of an archive a child process is *)
(* started, the file's records are written to its standard input through   *)
(* one pipe, and what it writes to its standard error comes back through   *)
(* another and is the digest.                                              *)
(*                                                                         *)
(* Parent and child run side by side.  A pipe holds so much; who reads an  *)
(* empty one or writes to a full one waits, until the last holder of the   *)
(* other end has closed it.  The child is ffprobe, of which is assumed     *)
(* only that it reads so many records, says so much and exits.             *)
(***************************************************************************)
EXTENDS Integers, Sequences

CONSTANTS
  Sizes,    \* for each file, its length in records
  MaxSize,  \* the most records of a file
  MaxSay,   \* the most pieces a child writes
  Room      \* what a pipe holds: records, or pieces of output

ASSUME SizesAssumption == Sizes \in Seq(0..MaxSize)
ASSUME SayAssumption   == MaxSay \in Nat
ASSUME RoomAssumption  == Room \in Nat \ {0}

VARIABLES
  need,      \* per file, the records its child wants; one more is the end
  say,       \* per file, the pieces its child writes
  pc,        \* where the parent is
  file,      \* the file being digested
  sent,      \* its records handed to update
  snd_data,  \* _snd_data
  output,    \* _output, pieces as <<file, number>>
  child,     \* what the child does, "none" when it was waited for
  got,       \* the records the child has read
  said,      \* the pieces it has written
  fds,       \* the ends of the pipes that parent and child hold open
  inPipe,    \* records on their way to the child
  errPipe    \* pieces on their way back

plan      == <<need, say>>
childVars == <<child, got, said>>
vars      == <<plan, pc, file, sent, snd_data, output, childVars, fds, inPipe, errPipe>>

Files == 1..Len(Sizes)

\* The two ends of the pipe to the child and of the one from it.
Ends == {"in read", "in write", "err read", "err write"}

Open(end) == \E p \in {"parent", "child"} : end \in fds[p]

Whole(j) == [i \in 1..say[j] |-> <<j, i>>]

Init ==
  /\ need \in [Files -> 0..(MaxSize + 1)]
  /\ \A j \in Files : need[j] <= Sizes[j] + 1
  /\ say \in [Files -> 0..MaxSay]
  /\ pc = "reset"
  /\ file = 1
  /\ sent = 0
  /\ snd_data = TRUE
  /\ output = << >>
  /\ child = "none"
  /\ got = 0
  /\ said = 0
  /\ fds = [p \in {"parent", "child"} |-> {}]
  /\ inPipe = << >>
  /\ errPipe = << >>

(* Slip: the parent leaves the child's ends open.                          *)
ParentKeepsAll == Ends

(* The ends each keeps after the fork: create_parent and create_child.     *)
ParentKeeps == {"in write", "err read"}

ChildKeeps == {"in read", "err write"}

(* Slip: what the last child said is kept.                                 *)
ResetKeepingOutput ==
  /\ pc = "reset"
  /\ file \in Files
  /\ fds' = [p \in {"parent", "child"} |-> IF p = "parent" THEN ParentKeeps ELSE ChildKeeps]
  /\ inPipe' = << >> /\ errPipe' = << >>
  /\ sent' = 0 /\ snd_data' = TRUE
  /\ child' = "running" /\ got' = 0 /\ said' = 0
  /\ pc' = "feed"
  /\ UNCHANGED <<plan, file, output>>

(* reset: two pipes and a child.                                           *)
Reset ==
  /\ pc = "reset"
  /\ file \in Files
  /\ fds' = [p \in {"parent", "child"} |-> IF p = "parent" THEN ParentKeeps ELSE ChildKeeps]
  /\ inPipe' = << >> /\ errPipe' = << >>
  /\ sent' = 0 /\ snd_data' = TRUE /\ output' = << >>
  /\ child' = "running" /\ got' = 0 /\ said' = 0
  /\ pc' = "feed"
  /\ UNCHANGED <<plan, file>>

(* pipe or fork fails: system_error, which nothing catches.                *)
ResetFails ==
  /\ pc = "reset"
  /\ file \in Files
  /\ pc' = "failed"
  /\ UNCHANGED <<plan, file, sent, snd_data, output, childVars, fds, inPipe, errPipe>>

(* update, by the next record.  The write waits for room, or for the child *)
(* to close its end: then it fails, SIGPIPE having a handler, what the     *)
(* child has said is fetched and nothing more is sent.                     *)
Update ==
  /\ pc = "feed"
  /\ sent < Sizes[file]
  /\ sent' = sent + 1
  /\ \/ /\ ~snd_data
        /\ UNCHANGED <<pc, snd_data, inPipe>>
     \/ /\ snd_data
        /\ Open("in read")
        /\ Len(inPipe) < Room
        /\ inPipe' = Append(inPipe, sent + 1)
        /\ UNCHANGED <<pc, snd_data>>
     \/ /\ snd_data
        /\ ~Open("in read")
        /\ pc' = "fetch, then feed"
        /\ snd_data' = FALSE
        /\ UNCHANGED inPipe
  /\ UNCHANGED <<plan, file, output, childVars, fds, errPipe>>

Fetching == {"fetch, then feed", "fetch, then close"}

(* A read in fetch_output: all there is.                                   *)
FetchSome ==
  /\ pc \in Fetching
  /\ errPipe # << >>
  /\ output' = output \o errPipe
  /\ errPipe' = << >>
  /\ UNCHANGED <<plan, pc, file, sent, snd_data, childVars, fds, inPipe>>

(* The read that finds the end of the child's output.                      *)
FetchEnd ==
  /\ pc \in Fetching
  /\ errPipe = << >>
  /\ ~Open("err write")
  /\ pc' = IF pc = "fetch, then feed" THEN "feed" ELSE "close"
  /\ UNCHANGED <<plan, file, sent, snd_data, output, childVars, fds, inPipe, errPipe>>

(* finalize looks whether the child has exited: if so, it is not asked for *)
(* what it said, and otherwise waited for.                                 *)
Finalize ==
  /\ pc = "feed"
  /\ sent = Sizes[file]
  /\ \/ child = "exited" /\ child' = "none" /\ pc' = "close"
     \/ child # "exited" /\ UNCHANGED child /\ pc' = "wait"
  /\ UNCHANGED <<plan, file, sent, snd_data, output, got, said, fds, inPipe, errPipe>>

Wait ==
  /\ pc = "wait"
  /\ child = "exited"
  /\ child' = "none"
  /\ pc' = "fetch, then close"
  /\ UNCHANGED <<plan, file, sent, snd_data, output, got, said, fds, inPipe, errPipe>>

(* close_fds, and _output is returned.                                     *)
Close ==
  /\ pc = "close"
  /\ fds' = [fds EXCEPT !["parent"] = {}]
  /\ file' = file + 1
  /\ pc' = "reset"
  /\ UNCHANGED <<plan, sent, snd_data, output, childVars, inPipe, errPipe>>

Done == pc = "reset" /\ file > Len(Sizes)

-----------------------------------------------------------------------------
(* The child goes on to read, to write or to exit.                         *)
ChildChooses ==
  /\ child = "running"
  /\ \/ got < need[file] /\ child' = "reading"
     \/ said < say[file] /\ child' = "writing"
     \/ got = need[file] /\ said = say[file] /\ child' = "exiting"
  /\ UNCHANGED <<plan, pc, file, sent, snd_data, output, got, said, fds, inPipe, errPipe>>

(* It reads a record, or finds that the input has ended.                   *)
ChildReads ==
  /\ child = "reading"
  /\ inPipe # << >> \/ ~Open("in write")
  /\ inPipe' = IF inPipe = << >> THEN inPipe ELSE Tail(inPipe)
  /\ got' = IF inPipe = << >> THEN need[file] ELSE got + 1
  /\ child' = "running"
  /\ UNCHANGED <<plan, pc, file, sent, snd_data, output, said, fds, errPipe>>

ChildWrites ==
  /\ child = "writing"
  /\ Len(errPipe) < Room
  /\ errPipe' = Append(errPipe, <<file, said + 1>>)
  /\ said' = said + 1
  /\ child' = "running"
  /\ UNCHANGED <<plan, pc, file, sent, snd_data, output, got, fds, inPipe>>

(* Exiting closes its ends; only then is there a process to wait for.      *)
ChildCloses ==
  /\ child = "exiting"
  /\ "err write" \in fds["child"]
  /\ fds' = [fds EXCEPT !["child"] = {}]
  /\ UNCHANGED <<plan, pc, file, sent, snd_data, output, childVars, inPipe, errPipe>>

ChildExits ==
  /\ child = "exiting"
  /\ fds["child"] = {}
  /\ child' = "exited"
  /\ UNCHANGED <<plan, pc, file, sent, snd_data, output, got, said, fds, inPipe, errPipe>>

Parent == Reset \/ ResetFails \/ Update \/ FetchSome \/ FetchEnd \/ Finalize \/ Wait \/ Close

Child == ChildChooses \/ ChildReads \/ ChildWrites \/ ChildCloses \/ ChildExits

Next == Parent \/ Child

Spec == Init /\ [][Next]_vars

(* Both processes are scheduled, and the child does not read for ever      *)
(* where it has something to say.                                          *)
FairSpec == Spec /\ WF_vars(Parent) /\ WF_vars(Child)

-----------------------------------------------------------------------------
\* What does not wait: a write with room or without a reader, a read of what
\* is there or from a closed pipe, a wait for who has exited.
ParentCanGo ==
  \/ pc = "reset" /\ file \in Files
  \/ /\ pc = "feed"
     /\ sent < Sizes[file] => ~snd_data \/ ~Open("in read") \/ Len(inPipe) < Room
  \/ pc \in Fetching /\ (errPipe # << >> \/ ~Open("err write"))
  \/ pc = "wait" /\ child = "exited"
  \/ pc = "close"

ChildCanGo ==
  \/ child \in {"running", "exiting"}
  \/ child = "reading" /\ (inPipe # << >> \/ ~Open("in write"))
  \/ child = "writing" /\ Len(errPipe) < Room

(* What a file's digest comes to is all that its own child said, or        *)
(* nothing, the child having exited when finalize looked; after a refused  *)
(* write it is all of it for sure (sump.h lines 301-321, 347-418).         *)
DigestIsOwnOutput ==
  pc = "close" =>
    /\ output \in {<< >>, Whole(file)}
    /\ ~snd_data => output = Whole(file)

(* Parent and child come to wait for each other in two ways only: finalize *)
(* waits for a child that wants the end of its input, which comes when the *)
(* parent closes its end, after the wait; or the child has said more than  *)
(* its pipe holds, which nobody reads before the parent is through with    *)
(* its writing or its waiting (sump.h lines 384-410).                      *)
StuckOnlyThus ==
  ~ParentCanGo /\ ~ChildCanGo =>
    \/ Done \/ pc = "failed"
    \/ /\ pc = "wait" /\ child = "reading"
       /\ need[file] > Sizes[file]
    \/ /\ child = "writing" /\ say[file] > Room
       /\ pc = "wait" \/ (pc = "feed" /\ Len(inPipe) = Room)

(* If no child wants the end of its input, and none says more than a pipe  *)
(* holds, the digests of all files are made, or a child could not be       *)
(* started (sump.h lines 347-418).                                         *)
ModestChildrenEnd ==
  (\A j \in Files : need[j] <= Sizes[j] /\ say[j] <= Room)
    => <>(Done \/ pc = "failed")
=============================================================================
