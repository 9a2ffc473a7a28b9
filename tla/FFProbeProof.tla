--------------------------- MODULE FFProbeProof ----------------------------
(***************************************************************************)
(* Proofs about FFProbe, for all files, sizes of pipe and children: what a *)
(* file's digest is made of, however parent and child interleave, and how  *)
(* the two come to wait for each other.                                    *)
(***************************************************************************)
EXTENDS FFProbe, SequenceTheorems, TLAPS

(* A child is being fed, fetched from, waited for or closed.               *)
AtWork == pc \in {"feed", "wait", "close"} \cup Fetching

Pieces(j, n) == [i \in 1..n |-> <<j, i>>]

(* What the child has said is in the digest or in the pipe.                *)
SaidOK ==
  /\ output \o errPipe = Pieces(file, said)
  /\ child = "writing" => said < say[file]
  /\ child \in {"exiting", "exited", "none"} => said = say[file]

(* The pipe's ends: the child's are its own, and it leaves with none.      *)
EndsOK ==
  /\ fds["parent"] \subseteq ParentKeeps
  /\ fds["child"] = ChildKeeps \/ (fds["child"] = {} /\ child \in {"exiting", "exited", "none"})
  /\ child \in {"exited", "none"} => fds["child"] = {}

(* The parent takes what was said when a write is refused, or at the end:  *)
(* either time the child has closed its ends, and all of it.               *)
TakenOK ==
  /\ snd_data /\ pc \in {"feed", "wait"} => output = << >>
  /\ ~snd_data => fds["child"] = {}
  /\ ~snd_data /\ pc # "fetch, then feed" => errPipe = << >>
  /\ pc = "fetch, then feed" => ~snd_data
  /\ pc \in {"fetch, then close", "close"} => child = "none"
  /\ pc = "close" => output = << >> \/ errPipe = << >>

Inv ==
  /\ say \in [Files -> 0..MaxSay]
  /\ pc \in {"reset", "failed", "feed", "wait", "close"} \cup Fetching
  /\ file \in Nat
  /\ said \in Nat
  /\ snd_data \in BOOLEAN
  /\ child \in {"none", "running", "reading", "writing", "exiting", "exited"}
  /\ output \in Seq(Nat \X Nat) /\ errPipe \in Seq(Nat \X Nat)
  /\ fds \in [{"parent", "child"} -> SUBSET Ends]
  /\ ~AtWork => child = "none"
  /\ AtWork => file \in Files /\ SaidOK /\ EndsOK /\ TakenOK

-----------------------------------------------------------------------------
LEMMA PiecesFacts ==
  ASSUME NEW j \in Nat, NEW n \in Nat
  PROVE  /\ Pieces(j, n) \in Seq(Nat \X Nat)
         /\ Append(Pieces(j, n), <<j, n + 1>>) = Pieces(j, n + 1)
<1>1. \A i \in 1..n : <<j, i>> \in Nat \X Nat
  OBVIOUS
<1>2. Pieces(j, n) \in Seq(Nat \X Nat) /\ Len(Pieces(j, n)) = n
  BY <1>1 DEF Pieces
<1>3. <<j, n + 1>> \in Nat \X Nat
  OBVIOUS
<1> DEFINE s == Append(Pieces(j, n), <<j, n + 1>>)
<1>4. /\ s \in Seq(Nat \X Nat) /\ Len(s) = n + 1
      /\ \A i \in 1..n : s[i] = Pieces(j, n)[i]
      /\ s[n + 1] = <<j, n + 1>>
  BY <1>2, <1>3, AppendProperties
<1> HIDE DEF s
<1>5. \A i \in 1..(n + 1) : s[i] = <<j, i>>
  <2>1. \A i \in 1..n : Pieces(j, n)[i] = <<j, i>>
    BY DEF Pieces
  <2> QED
    BY <1>4, <2>1
<1>6. s = [i \in 1..(n + 1) |-> <<j, i>>]
  <2>1. s \in [1..(n + 1) -> Nat \X Nat]
    BY <1>4, LenProperties
  <2> QED
    BY <1>5, <2>1
<1> QED
  BY <1>2, <1>6 DEF s, Pieces

LEMMA AppendRight ==
  ASSUME NEW S, NEW o \in Seq(S), NEW e \in Seq(S), NEW x \in S
  PROVE  Append(e, x) \in Seq(S) /\ o \o Append(e, x) = Append(o \o e, x)
<1>1. <<x>> \in Seq(S)
  OBVIOUS
<1>2. o \o e \in Seq(S)
  BY ConcatProperties
<1>3. Append(e, x) \in Seq(S)
  BY AppendProperties
<1>4. Append(e, x) = e \o <<x>>
  BY AppendIsConcat
<1>5. Append(o \o e, x) = (o \o e) \o <<x>>
  BY <1>2, AppendIsConcat
<1>6. (o \o e) \o <<x>> = o \o (e \o <<x>>)
  BY <1>1, ConcatAssociative
<1> QED
  BY <1>3, <1>4, <1>5, <1>6

(* What a child says more, and what is fetched of it.                      *)
LEMMA SaysMore ==
  ASSUME NEW o \in Seq(Nat \X Nat), NEW e \in Seq(Nat \X Nat),
         NEW j \in Nat, NEW n \in Nat, o \o e = Pieces(j, n)
  PROVE  /\ Append(e, <<j, n + 1>>) \in Seq(Nat \X Nat)
         /\ o \o Append(e, <<j, n + 1>>) = Pieces(j, n + 1)
<1> DEFINE x == <<j, n + 1>>
<1>1. x \in Nat \X Nat
  OBVIOUS
<1>2. Append(Pieces(j, n), x) = Pieces(j, n + 1)
  BY PiecesFacts DEF x
<1> HIDE DEF x
<1> DEFINE P == Nat \X Nat
<1>3. o \in Seq(P) /\ e \in Seq(P) /\ x \in P
  BY <1>1
<1> HIDE DEF P
<1>4. Append(e, x) \in Seq(P)
  BY <1>3, AppendRight
<1>5. \A q, r \in Seq(P), y \in P : q \o Append(r, y) = Append(q \o r, y)
  BY AppendRight
<1>6. o \o Append(e, x) = Append(o \o e, x)
  BY <1>3, <1>5
<1> QED
  BY <1>2, <1>4, <1>6 DEF x, P

LEMMA Fetched ==
  ASSUME NEW o \in Seq(Nat \X Nat), NEW e \in Seq(Nat \X Nat)
  PROVE  o \o e \in Seq(Nat \X Nat) /\ (o \o e) \o << >> = o \o e /\ o \o << >> = o
BY ConcatProperties, ConcatEmptySeq

LEMMA InitInv == Init => Inv
<1> SUFFICES ASSUME Init PROVE Inv
  OBVIOUS
<1>1. << >> \in Seq(Nat \X Nat)
  OBVIOUS
<1>2. /\ say \in [Files -> 0..MaxSay] /\ pc = "reset" /\ file = 1 /\ said = 0
      /\ snd_data = TRUE /\ child = "none" /\ output = << >> /\ errPipe = << >>
  BY DEF Init
<1>3. fds \in [{"parent", "child"} -> SUBSET Ends]
  BY DEF Init
<1> QED
  BY <1>1, <1>2, <1>3 DEF Inv, AtWork, Fetching

(* The parent starts a child, and is through with it.                      *)
LEMMA ResetInv ==
  ASSUME Inv, Reset
  PROVE  Inv'
<1>1. /\ fds' = [p \in {"parent", "child"} |-> IF p = "parent" THEN ParentKeeps ELSE ChildKeeps]
      /\ errPipe' = << >> /\ output' = << >> /\ snd_data' = TRUE
      /\ child' = "running" /\ said' = 0 /\ pc' = "feed" /\ file' = file /\ say' = say
      /\ file \in Files
  BY DEF Reset, plan
<1>2. << >> \in Seq(Nat \X Nat) /\ << >> \o << >> = << >>
  OBVIOUS
<1>3. /\ fds' \in [{"parent", "child"} -> SUBSET Ends]
      /\ fds'["parent"] = ParentKeeps /\ fds'["child"] = ChildKeeps
  <2>1. ParentKeeps \in SUBSET Ends /\ ChildKeeps \in SUBSET Ends
    BY DEF ParentKeeps, ChildKeeps, Ends
  <2> QED
    BY <1>1, <2>1
<1>4. Pieces(file, 0) = << >>
  BY DEF Pieces
<1>5. SaidOK'
  BY <1>1, <1>2, <1>4 DEF SaidOK
<1>6. EndsOK'
  BY <1>1, <1>3 DEF EndsOK
<1>7. TakenOK'
  BY <1>1 DEF TakenOK
<1> QED
  BY <1>1, <1>2, <1>3, <1>5, <1>6, <1>7 DEF Inv, AtWork, Files

LEMMA LeaveInv ==
  ASSUME Inv, ResetFails \/ Close
  PROVE  Inv'
<1>1. /\ pc' \in {"reset", "failed"} /\ child = "none" /\ file' \in Nat
      /\ UNCHANGED <<say, said, snd_data, output, child, errPipe>>
  <2>1. CASE ResetFails
    BY <2>1 DEF ResetFails, Inv, AtWork, Fetching, plan, childVars
  <2>2. CASE Close
    <3>1. pc = "close" /\ TakenOK
      BY <2>2 DEF Close, Inv, AtWork
    <3> QED
      BY <2>2, <3>1 DEF Close, Inv, TakenOK, plan, childVars
  <2> QED
    BY <2>1, <2>2
<1>2. fds' \in [{"parent", "child"} -> SUBSET Ends]
  BY DEF ResetFails, Close, Inv
<1> QED
  BY <1>1, <1>2 DEF Inv, AtWork, Fetching, Files

(* The parent feeds the child, or finds that it does not read.             *)
LEMMA UpdateInv ==
  ASSUME Inv, Update
  PROVE  Inv'
<1>1. /\ pc = "feed" /\ UNCHANGED <<say, file, output, child, said, fds, errPipe>>
      /\ \/ pc' = pc /\ snd_data' = snd_data
         \/ snd_data /\ ~Open("in read") /\ pc' = "fetch, then feed" /\ snd_data' = FALSE
  BY DEF Update, plan, childVars
<1>2. SaidOK /\ EndsOK /\ TakenOK /\ file \in Files
  BY <1>1 DEF Inv, AtWork
<1>3. SaidOK' /\ EndsOK'
  BY <1>1, <1>2 DEF SaidOK, EndsOK
<1>4. TakenOK'
  <2>1. CASE pc' = pc /\ snd_data' = snd_data
    BY <1>1, <1>2, <2>1 DEF TakenOK
  <2>2. CASE ~Open("in read") /\ pc' = "fetch, then feed" /\ snd_data' = FALSE
    <3>1. fds["child"] = {}
      BY <1>2, <2>2 DEF Open, EndsOK, ChildKeeps
    <3> QED
      BY <1>1, <2>2, <3>1 DEF TakenOK
  <2> QED
    BY <1>1, <2>1, <2>2
<1>5. pc' \in {"feed", "fetch, then feed"} /\ snd_data' \in BOOLEAN
  BY <1>1 DEF Inv
<1> QED
  BY <1>1, <1>2, <1>3, <1>4, <1>5 DEF Inv, AtWork, Fetching, Files

LEMMA FetchSomeInv ==
  ASSUME Inv, FetchSome
  PROVE  Inv'
<1>1. /\ pc \in Fetching /\ output' = output \o errPipe /\ errPipe' = << >>
      /\ UNCHANGED <<say, pc, file, snd_data, child, said, fds>>
  BY DEF FetchSome, plan, childVars
<1>2. SaidOK /\ EndsOK /\ TakenOK /\ file \in Files
  BY <1>1 DEF Inv, AtWork
<1>3. /\ output' \in Seq(Nat \X Nat) /\ errPipe' \in Seq(Nat \X Nat)
      /\ output' \o errPipe' = output \o errPipe
  <2>1. << >> \in Seq(Nat \X Nat)
    OBVIOUS
  <2> QED
    BY <1>1, <2>1, Fetched DEF Inv
<1>4. SaidOK' /\ EndsOK'
  BY <1>1, <1>2, <1>3 DEF SaidOK, EndsOK
<1>5. TakenOK'
  BY <1>1, <1>2 DEF TakenOK, Fetching
<1> QED
  BY <1>1, <1>2, <1>3, <1>4, <1>5 DEF Inv, AtWork, Fetching, Files

(* The end of what the child has to say: it has closed its end.            *)
LEMMA FetchEndInv ==
  ASSUME Inv, FetchEnd
  PROVE  Inv'
<1>1. /\ pc \in Fetching /\ errPipe = << >> /\ ~Open("err write")
      /\ pc' = IF pc = "fetch, then feed" THEN "feed" ELSE "close"
      /\ UNCHANGED <<say, file, snd_data, output, child, said, fds, errPipe>>
  BY DEF FetchEnd, plan, childVars
<1>2. SaidOK /\ EndsOK /\ TakenOK /\ file \in Files
  BY <1>1 DEF Inv, AtWork
<1>3. SaidOK' /\ EndsOK'
  BY <1>1, <1>2 DEF SaidOK, EndsOK
<1>4. TakenOK'
  BY <1>1, <1>2 DEF TakenOK, Fetching
<1>5. pc' \in {"feed", "close"}
  BY <1>1
<1> QED
  BY <1>1, <1>2, <1>3, <1>4, <1>5 DEF Inv, AtWork, Fetching, Files

LEMMA FinalizeInv ==
  ASSUME Inv, Finalize \/ Wait
  PROVE  Inv'
<1>1. /\ UNCHANGED <<say, file, snd_data, output, said, fds, errPipe>>
      /\ \/ pc = "feed" /\ child = "exited" /\ child' = "none" /\ pc' = "close"
         \/ pc = "feed" /\ child' = child /\ pc' = "wait"
         \/ pc = "wait" /\ child = "exited" /\ child' = "none" /\ pc' = "fetch, then close"
  BY DEF Finalize, Wait, plan
<1>2. SaidOK /\ EndsOK /\ TakenOK /\ file \in Files
  BY <1>1 DEF Inv, AtWork
<1>3. SaidOK' /\ EndsOK'
  BY <1>1, <1>2 DEF SaidOK, EndsOK
<1>4. TakenOK'
  BY <1>1, <1>2 DEF TakenOK
<1>5. /\ pc' \in {"close", "wait", "fetch, then close"}
      /\ child' \in {"none", "running", "reading", "writing", "exiting", "exited"}
  BY <1>1 DEF Inv
<1> QED
  BY <1>1, <1>2, <1>3, <1>4, <1>5 DEF Inv, AtWork, Fetching, Files

(* The child's steps: there is a child only while the parent works on it.  *)
LEMMA ChildInv ==
  ASSUME Inv, Child
  PROVE  Inv'
<1>1. child # "none" /\ UNCHANGED <<say, pc, file, snd_data, output>>
  BY DEF Child, ChildChooses, ChildReads, ChildWrites, ChildCloses, ChildExits, plan
<1>2. AtWork /\ SaidOK /\ EndsOK /\ TakenOK /\ file \in Files /\ file \in Nat /\ said \in Nat
  BY <1>1 DEF Inv
<1>3. CASE ChildChooses \/ ChildReads
  <2>1. /\ UNCHANGED <<said, fds, errPipe>>
        /\ child' \in {"running", "reading", "writing", "exiting"}
        /\ child' = "writing" => said < say[file]
        /\ child' = "exiting" => said = say[file]
        /\ child \in {"running", "reading"}
    BY <1>3 DEF ChildChooses, ChildReads
  <2>2. SaidOK' /\ EndsOK' /\ TakenOK'
    BY <1>1, <1>2, <2>1 DEF SaidOK, EndsOK, TakenOK
  <2> QED
    BY <1>1, <1>2, <2>1, <2>2 DEF Inv, AtWork, Files
<1>4. CASE ChildWrites
  <2>1. /\ child = "writing" /\ child' = "running" /\ said' = said + 1
        /\ errPipe' = Append(errPipe, <<file, said + 1>>) /\ fds' = fds
    BY <1>4 DEF ChildWrites
  <2>2. /\ errPipe' \in Seq(Nat \X Nat)
        /\ output \o errPipe' = Pieces(file, said + 1)
    <3>1. output \in Seq(Nat \X Nat) /\ errPipe \in Seq(Nat \X Nat)
      BY DEF Inv
    <3>2. output \o errPipe = Pieces(file, said)
      BY <1>2 DEF SaidOK
    <3> QED
      BY <1>2, <2>1, <3>1, <3>2, SaysMore
  <2>3. SaidOK' /\ EndsOK'
    BY <1>1, <1>2, <2>1, <2>2 DEF SaidOK, EndsOK
  <2>4. snd_data /\ pc \in {"feed", "wait"}
    BY <1>2, <2>1 DEF TakenOK, EndsOK, AtWork, Fetching, ChildKeeps
  <2>5. TakenOK'
    BY <1>1, <1>2, <2>1, <2>4 DEF TakenOK
  <2> QED
    BY <1>1, <1>2, <2>1, <2>2, <2>3, <2>5 DEF Inv, AtWork, Files
<1>5. CASE ChildCloses \/ ChildExits
  <2>1. /\ UNCHANGED <<said, errPipe>> /\ child = "exiting"
        /\ child' \in {"exiting", "exited"}
        /\ child' = "exited" => fds["child"] = {}
        /\ fds' = fds \/ fds' = [fds EXCEPT !["child"] = {}]
    BY <1>5 DEF ChildCloses, ChildExits, childVars
  <2>2. /\ fds' \in [{"parent", "child"} -> SUBSET Ends]
        /\ fds'["parent"] = fds["parent"] /\ fds'["child"] \in {fds["child"], {}}
    BY <2>1 DEF Inv
  <2>3. SaidOK'
    BY <1>1, <1>2, <2>1 DEF SaidOK
  <2>4. EndsOK' /\ TakenOK'
    BY <1>1, <1>2, <2>1, <2>2 DEF EndsOK, TakenOK
  <2> QED
    BY <1>1, <1>2, <2>1, <2>2, <2>3, <2>4 DEF Inv, AtWork, Files
<1> QED
  BY <1>3, <1>4, <1>5 DEF Child

LEMMA NextInv == Inv /\ [Next]_vars => Inv'
<1> SUFFICES ASSUME Inv, [Next]_vars PROVE Inv'
  OBVIOUS
<1>1. CASE UNCHANGED vars
  BY <1>1 DEF Inv, AtWork, SaidOK, EndsOK, TakenOK, vars, plan, childVars
<1> QED
  BY <1>1, ResetInv, LeaveInv, UpdateInv, FetchSomeInv, FetchEndInv, FinalizeInv, ChildInv
     DEF Next, Parent

LEMMA Inductive == Spec => []Inv
  BY InitInv, NextInv, PTL DEF Spec

(* The digest of a file is all that its own child said, in order, or, the  *)
(* child having been quicker than finalize, nothing; never a part of it    *)
(* and nothing of another file's, for any sizes of file and of pipe and    *)
(* any child (sump.h lines 301-321, 347-418).                              *)
THEOREM DigestOfOwnChild == Spec => []DigestIsOwnOutput
<1>1. Inv => DigestIsOwnOutput
  <2> SUFFICES ASSUME Inv, pc = "close"
               PROVE  /\ output \in {<< >>, Whole(file)}
                      /\ ~snd_data => output = Whole(file)
    BY DEF DigestIsOwnOutput
  <2>1. SaidOK /\ TakenOK /\ output \in Seq(Nat \X Nat)
    BY DEF Inv, AtWork
  <2>2. said = say[file] /\ output \o errPipe = Whole(file)
    BY <2>1 DEF TakenOK, SaidOK, Pieces, Whole
  <2>3. errPipe = << >> => output = Whole(file)
    BY <2>1, <2>2, Fetched
  <2> QED
    BY <2>1, <2>3 DEF TakenOK
<1> QED
  BY <1>1, Inductive, PTL

-----------------------------------------------------------------------------
(* What is on its way to the child: unless a write was refused, what it    *)
(* has not read of what was sent; and while there is a child, the parent   *)
(* holds its own ends.                                                     *)
FedOK ==
  /\ sent <= Sizes[file]
  /\ pc = "wait" => sent = Sizes[file]
  /\ pc \in {"feed", "wait", "fetch, then feed"} => child # "none"
  /\ fds["parent"] = ParentKeeps
  /\ Len(inPipe) <= Room
  /\ got <= need[file] /\ said <= say[file]
  /\ child = "reading" => got < need[file]
  /\ snd_data => got + Len(inPipe) = sent

Fed ==
  /\ need \in [Files -> Nat]
  /\ file \in 1..(Len(Sizes) + 1)
  /\ sent \in Nat /\ got \in Nat
  /\ inPipe \in Seq(Nat)
  /\ AtWork => FedOK

LEMMA SizesFacts ==
  ASSUME NEW j \in Files
  PROVE  Sizes[j] \in Nat
<1>1. Sizes \in Seq(0..MaxSize) /\ j \in 1..Len(Sizes)
  BY SizesAssumption DEF Files
<1> DEFINE S == 0..MaxSize
<1>2. \A s \in Seq(S) : \A i \in 1..Len(s) : s[i] \in S
  BY ElementOfSeq
<1>3. Sizes[j] \in S
  BY <1>1, <1>2
<1> QED
  BY <1>3

LEMMA SayFacts ==
  ASSUME Inv, NEW j \in Files
  PROVE  say[j] \in Nat
BY SayAssumption DEF Inv

LEMMA LengthFact == Len(Sizes) \in Nat
BY SizesAssumption

LEMMA InitFed == Init => Fed
<1> SUFFICES ASSUME Init PROVE Fed
  OBVIOUS
<1>1. /\ pc = "reset" /\ file = 1 /\ sent = 0 /\ got = 0 /\ inPipe = << >>
      /\ need \in [Files -> 0..(MaxSize + 1)]
  BY DEF Init
<1>2. need \in [Files -> Nat]
  BY <1>1
<1>3. << >> \in Seq(Nat)
  OBVIOUS
<1>4. file \in 1..(Len(Sizes) + 1)
  BY <1>1, LengthFact
<1> QED
  BY <1>1, <1>2, <1>3, <1>4 DEF Fed, AtWork, Fetching

LEMMA ResetFed ==
  ASSUME Inv, Fed, Reset
  PROVE  Fed'
<1>1. /\ fds' = [p \in {"parent", "child"} |-> IF p = "parent" THEN ParentKeeps ELSE ChildKeeps]
      /\ inPipe' = << >> /\ sent' = 0 /\ got' = 0 /\ said' = 0
      /\ child' = "running" /\ pc' = "feed" /\ file' = file /\ need' = need /\ say' = say
      /\ file \in Files
  BY DEF Reset, plan
<1>2. << >> \in Seq(Nat) /\ Len(<< >>) = 0
  OBVIOUS
<1>3. need[file] \in Nat /\ say[file] \in Nat
  BY <1>1, SayFacts DEF Fed
<1>4. FedOK'
  BY <1>1, <1>2, <1>3, SizesFacts, RoomAssumption DEF FedOK
<1> QED
  BY <1>1, <1>2, <1>4 DEF Fed

LEMMA LeaveFed ==
  ASSUME Inv, Fed, ResetFails \/ Close
  PROVE  Fed'
<1>1. /\ pc' \in {"reset", "failed"} /\ file' \in {file, file + 1}
      /\ UNCHANGED <<need, sent, got, inPipe>>
  BY DEF ResetFails, Close, plan, childVars
<1>2. file' \in 1..(Len(Sizes) + 1)
  <2>1. CASE ResetFails
    BY <2>1 DEF ResetFails, Fed
  <2>2. CASE Close
    <3>1. file \in Files /\ file' = file + 1
      BY <2>2 DEF Close, Inv, AtWork
    <3> QED
      BY <3>1, LengthFact DEF Files
  <2> QED
    BY <2>1, <2>2
<1> QED
  BY <1>1, <1>2 DEF Fed, AtWork, Fetching

LEMMA UpdateFed ==
  ASSUME Inv, Fed, Update
  PROVE  Fed'
<1>1. /\ pc = "feed" /\ sent < Sizes[file] /\ sent' = sent + 1
      /\ UNCHANGED <<need, say, file, child, got, said, fds>>
  BY DEF Update, plan, childVars
<1>2. FedOK /\ file \in Files /\ sent \in Nat /\ got \in Nat /\ inPipe \in Seq(Nat)
  BY <1>1 DEF Fed, Inv, AtWork
<1>3. sent' \in Nat /\ sent' <= Sizes[file]
  BY <1>1, <1>2, SizesFacts
<1>4. Room \in Nat
  BY RoomAssumption
<1>5. CASE /\ snd_data /\ Len(inPipe) < Room /\ inPipe' = Append(inPipe, sent + 1)
           /\ UNCHANGED <<pc, snd_data>>
  <2>1. inPipe' \in Seq(Nat) /\ Len(inPipe') = Len(inPipe) + 1
    BY <1>2, <1>5, AppendProperties
  <2>2. Len(inPipe) \in Nat
    BY <1>2
  <2>4. got + Len(inPipe) = sent
    BY <1>2, <1>5 DEF FedOK
  <2>3. Len(inPipe') <= Room /\ got + Len(inPipe') = sent'
    BY <1>1, <1>2, <1>4, <1>5, <2>1, <2>2, <2>4
  <2> QED
    BY <1>1, <1>2, <1>3, <1>5, <2>1, <2>3 DEF Fed, FedOK
<1>6. CASE /\ UNCHANGED inPipe /\ ~snd_data'
           /\ pc' \in {"feed", "fetch, then feed"}
  BY <1>1, <1>2, <1>3, <1>6 DEF Fed, FedOK
<1>7. \/ /\ snd_data /\ Len(inPipe) < Room /\ inPipe' = Append(inPipe, sent + 1)
         /\ UNCHANGED <<pc, snd_data>>
      \/ UNCHANGED inPipe /\ ~snd_data' /\ pc' \in {"feed", "fetch, then feed"}
  BY <1>1 DEF Update
<1> QED
  BY <1>5, <1>6, <1>7

LEMMA FetchFed ==
  ASSUME Inv, Fed, FetchSome \/ FetchEnd
  PROVE  Fed'
<1>1. /\ pc \in Fetching
      /\ pc' \in {pc, "close"} \/ (pc = "fetch, then feed" /\ pc' = "feed")
      /\ UNCHANGED <<need, say, file, sent, snd_data, child, got, said, fds, inPipe>>
  BY DEF FetchSome, FetchEnd, plan, childVars, Fetching
<1>2. FedOK
  BY <1>1 DEF Fed, AtWork
<1>3. FedOK'
  BY <1>1, <1>2 DEF FedOK, Fetching
<1> QED
  BY <1>1, <1>3 DEF Fed

LEMMA FinalizeFed ==
  ASSUME Inv, Fed, Finalize \/ Wait
  PROVE  Fed'
<1>1. /\ UNCHANGED <<need, say, file, sent, snd_data, got, said, fds, inPipe>>
      /\ \/ pc = "feed" /\ sent = Sizes[file] /\ child' = "none" /\ pc' = "close"
         \/ pc = "feed" /\ sent = Sizes[file] /\ child' = child /\ pc' = "wait"
         \/ pc = "wait" /\ child' = "none" /\ pc' = "fetch, then close"
  BY DEF Finalize, Wait, plan
<1>2. FedOK
  BY <1>1 DEF Fed, AtWork
<1>3. FedOK'
  BY <1>1, <1>2 DEF FedOK
<1> QED
  BY <1>1, <1>3 DEF Fed

(* A read takes a record, the parent's end being open.                     *)
LEMMA ChildFed ==
  ASSUME Inv, Fed, Child
  PROVE  Fed'
<1>1. child # "none" /\ UNCHANGED <<need, say, pc, file, sent, snd_data>>
  BY DEF Child, ChildChooses, ChildReads, ChildWrites, ChildCloses, ChildExits, plan
<1>2. AtWork /\ FedOK /\ file \in Files /\ got \in Nat /\ inPipe \in Seq(Nat)
  BY <1>1 DEF Inv, Fed
<1>3. CASE ChildReads
  <2>1. /\ child = "reading" /\ child' = "running" /\ fds' = fds /\ said' = said
        /\ inPipe # << >> \/ ~Open("in write")
        /\ inPipe' = IF inPipe = << >> THEN inPipe ELSE Tail(inPipe)
        /\ got' = IF inPipe = << >> THEN need[file] ELSE got + 1
    BY <1>3 DEF ChildReads
  <2>2. Open("in write")
    BY <1>2 DEF FedOK, ParentKeeps, Open
  <2>3. inPipe # << >>
    BY <2>1, <2>2
  <2>4. Tail(inPipe) \in Seq(Nat) /\ Len(Tail(inPipe)) = Len(inPipe) - 1 /\ Len(inPipe) \in Nat
    BY <1>2, <2>3, HeadTailProperties
  <2>5. inPipe' = Tail(inPipe) /\ got' = got + 1
    BY <2>1, <2>3
  <2>6. /\ inPipe' \in Seq(Nat) /\ got' \in Nat
        /\ Len(inPipe') <= Room /\ got' + Len(inPipe') = got + Len(inPipe)
        /\ got' <= need[file]
    <3>1. Len(inPipe) <= Room /\ Room \in Nat
      BY <1>2, RoomAssumption DEF FedOK
    <3> DEFINE n == Len(inPipe)
               m == Len(Tail(inPipe))
    <3>2. n \in Nat /\ m = n - 1 /\ n <= Room
      BY <2>4, <3>1
    <3> HIDE DEF n, m
    <3>3. m <= Room /\ (got + 1) + m = got + n
      BY <1>2, <3>1, <3>2
    <3>4. got < need[file] /\ need[file] \in Nat
      BY <1>2, <2>1 DEF FedOK, Fed
    <3> QED
      BY <1>2, <2>4, <2>5, <3>3, <3>4 DEF n, m
  <2> QED
    BY <1>1, <1>2, <2>1, <2>6 DEF Fed, FedOK, AtWork
<1>4. CASE ChildChooses \/ ChildWrites \/ ChildExits
  <2>1. /\ UNCHANGED <<got, fds, inPipe>> /\ child' # "none"
        /\ child' = "reading" => got < need[file]
        /\ said' = said \/ (child = "writing" /\ said' = said + 1)
    BY <1>4 DEF ChildChooses, ChildWrites, ChildExits
  <2>2. said' <= say[file]
    <3>1. said \in Nat /\ say[file] \in Nat
      BY <1>2, SayFacts DEF Inv
    <3>3. said <= say[file]
      BY <1>2 DEF FedOK
    <3>2. child = "writing" => said < say[file]
      BY <1>2 DEF Inv, SaidOK
    <3> QED
      BY <2>1, <3>1, <3>2, <3>3
  <2> QED
    BY <1>1, <1>2, <2>1, <2>2 DEF Fed, FedOK
<1>5. CASE ChildCloses
  <2>1. UNCHANGED <<got, said, child, inPipe>> /\ fds' = [fds EXCEPT !["child"] = {}]
    BY <1>5 DEF ChildCloses, childVars
  <2>2. fds'["parent"] = fds["parent"]
    BY <2>1 DEF Inv
  <2> QED
    BY <1>1, <1>2, <2>1, <2>2 DEF Fed, FedOK
<1> QED
  BY <1>3, <1>4, <1>5 DEF Child

LEMMA NextFed == Inv /\ Fed /\ [Next]_vars => Fed'
<1> SUFFICES ASSUME Inv, Fed, [Next]_vars PROVE Fed'
  OBVIOUS
<1>1. CASE UNCHANGED vars
  BY <1>1 DEF Fed, AtWork, FedOK, vars, plan, childVars
<1> QED
  BY <1>1, ResetFed, LeaveFed, UpdateFed, FetchFed, FinalizeFed, ChildFed
     DEF Next, Parent

LEMMA FedInductive == Spec => [](Inv /\ Fed)
  BY InitInv, NextInv, InitFed, NextFed, PTL DEF Spec

-----------------------------------------------------------------------------
LEMMA FullPipe ==
  ASSUME NEW q \in Seq(Nat), NEW r \in Nat \ {0}, Len(q) <= r, ~(Len(q) < r)
  PROVE  Len(q) = r /\ q # << >>
<1>1. Len(q) \in Nat
  OBVIOUS
<1>2. Len(q) = r
  BY <1>1
<1>3. Len(<< >>) = 0
  OBVIOUS
<1> QED
  BY <1>2, <1>3

LEMMA ParentsEnds ==
  ASSUME FedOK
  PROVE  /\ Open("in read") => "in read" \in fds["child"]
         /\ Open("err write") => "err write" \in fds["child"]
<1>1. fds["parent"] = ParentKeeps
  BY DEF FedOK
<1>2. "in read" \notin fds["parent"] /\ "err write" \notin fds["parent"]
  BY <1>1 DEF ParentKeeps
<1> QED
  BY <1>2 DEF Open

(* A child that cannot go on has stopped in the middle of a read or of a   *)
(* write; if the parent has taken nothing, all it said is in the pipe.     *)
LEMMA ChildStuck ==
  ASSUME Inv, Fed, pc \in {"feed", "wait"}, fds["child"] # {}, ~ChildCanGo
  PROVE  \/ child = "reading" /\ inPipe = << >> /\ snd_data
         \/ child = "writing" /\ say[file] > Room /\ snd_data
<1>1. file \in Files /\ SaidOK /\ EndsOK /\ TakenOK /\ FedOK
  BY DEF Inv, Fed, AtWork
<1>2. child \in {"reading", "writing"} /\ snd_data
  BY <1>1 DEF Inv, ChildCanGo, EndsOK, TakenOK
<1>3. CASE child = "reading"
  <2>1. Open("in write")
    BY <1>1 DEF FedOK, ParentKeeps, Open
  <2> QED
    BY <1>2, <1>3, <2>1 DEF ChildCanGo
<1>4. CASE child = "writing"
  <2>1. ~(Len(errPipe) < Room) /\ said < say[file]
    BY <1>1, <1>4 DEF ChildCanGo, SaidOK
  <2>2. output = << >> /\ errPipe \in Seq(Nat \X Nat)
    BY <1>1, <1>2 DEF TakenOK, Inv
  <2>3. errPipe = Pieces(file, said)
    <3>1. << >> \o errPipe = errPipe
      BY <2>2, ConcatEmptySeq
    <3> QED
      BY <1>1, <2>2, <3>1 DEF SaidOK
  <2>4. said \in Nat /\ say[file] \in Nat
    BY <1>1, SayAssumption DEF Inv
  <2>5. Len(errPipe) = said
    BY <2>3, <2>4 DEF Pieces
  <2>6. say[file] > Room
    BY <2>1, <2>4, <2>5, RoomAssumption
  <2> QED
    BY <1>2, <1>4, <2>6
<1> QED
  BY <1>2, <1>3, <1>4

(* However long the files, the pipes and what the children want and say,   *)
(* parent and child wait for each other for ever in two ways only: for the *)
(* end of an input that is closed after the wait, or with more said than   *)
(* the pipe holds (sump.h lines 384-410).                                  *)
THEOREM NoOtherDeadlock == Spec => []StuckOnlyThus
<1>1. Inv /\ Fed => StuckOnlyThus
  <2> DEFINE Forms ==
        \/ Done \/ pc = "failed"
        \/ /\ pc = "wait" /\ child = "reading"
           /\ need[file] > Sizes[file]
        \/ /\ child = "writing" /\ say[file] > Room
           /\ pc = "wait" \/ (pc = "feed" /\ Len(inPipe) = Room)
  <2> SUFFICES ASSUME Inv, Fed, ~ParentCanGo, ~ChildCanGo PROVE Forms
    BY DEF StuckOnlyThus
  <2>1. pc \in {"reset", "failed", "feed", "wait", "close"} \cup Fetching
    BY DEF Inv
  <2>2. CASE pc = "reset"
    <3>1. file \in 1..(Len(Sizes) + 1) /\ file \notin Files
      BY <2>2 DEF ParentCanGo, Fed
    <3> QED
      BY <2>2, <3>1, LengthFact DEF Done, Files
  <2>3. CASE pc = "feed"
    <3>1. file \in Files /\ EndsOK /\ FedOK
      BY <2>3 DEF Inv, Fed, AtWork
    <3>2. snd_data /\ Open("in read") /\ ~(Len(inPipe) < Room)
      BY <2>3 DEF ParentCanGo
    <3>3. inPipe \in Seq(Nat) /\ Room \in Nat \ {0}
      BY RoomAssumption DEF Fed
    <3>4. Len(inPipe) = Room /\ inPipe # << >>
      <4>1. Len(inPipe) <= Room
        BY <3>1 DEF FedOK
      <4> QED
        BY <3>2, <3>3, <4>1, FullPipe
    <3>5. "in read" \in fds["child"]
      BY <3>1, <3>2, ParentsEnds
    <3> QED
      BY <2>3, <3>4, <3>5, ChildStuck
  <2>4. CASE pc = "wait"
    <3>1. file \in Files /\ EndsOK /\ FedOK /\ child # "exited" /\ child # "exiting"
      BY <2>4 DEF Inv, Fed, AtWork, ParentCanGo, ChildCanGo
    <3>2. fds["child"] = ChildKeeps
      BY <2>4, <3>1 DEF EndsOK, FedOK
    <3>5. "in read" \in fds["child"]
      BY <3>2 DEF ChildKeeps
    <3>3. CASE child = "reading" /\ inPipe = << >> /\ snd_data
      <4>1. got = sent /\ got < need[file] /\ sent = Sizes[file]
        <5>1. Len(inPipe) = 0 /\ got \in Nat
          BY <3>3 DEF Fed
        <5> QED
          BY <2>4, <3>1, <3>3, <5>1 DEF FedOK
      <4> QED
        BY <2>4, <3>3, <4>1
    <3>4. CASE child = "writing" /\ say[file] > Room
      BY <2>4, <3>4
    <3> QED
      BY <2>4, <3>5, <3>3, <3>4, ChildStuck
  <2>5. CASE pc \in Fetching
    <3>1. EndsOK /\ TakenOK /\ FedOK /\ Open("err write")
      BY <2>5 DEF Inv, Fed, AtWork, ParentCanGo
    <3>2. "err write" \in fds["child"]
      BY <3>1, ParentsEnds
    <3> QED
      BY <2>5, <3>1, <3>2 DEF EndsOK, TakenOK, Fetching
  <2>6. pc # "close"
    BY DEF ParentCanGo
  <2>7. CASE pc = "failed"
    BY <2>7
  <2> QED
    BY <2>1, <2>2, <2>3, <2>4, <2>5, <2>6, <2>7
<1> QED
  BY <1>1, FedInductive, PTL

(* Where no child wants the end of its input and none says more than its   *)
(* pipe holds, there is always a step to take before the end.              *)
Modest == \A j \in Files : need[j] <= Sizes[j] /\ say[j] <= Room

THEOREM ModestNeverStuck ==
  Spec => [](Modest => ParentCanGo \/ ChildCanGo \/ Done \/ pc = "failed")
<1>1. ASSUME Inv, Fed, StuckOnlyThus, Modest
      PROVE  ParentCanGo \/ ChildCanGo \/ Done \/ pc = "failed"
  <2>1. CASE file \in Files
    <3>1. /\ need[file] \in Nat /\ Sizes[file] \in Nat /\ say[file] \in Nat /\ Room \in Nat
          /\ need[file] <= Sizes[file] /\ say[file] <= Room
      BY <1>1, <2>1, SizesFacts, SayFacts, RoomAssumption DEF Fed, Modest
    <3> QED
      BY <1>1, <3>1 DEF StuckOnlyThus
  <2>2. CASE file \notin Files
    BY <1>1, <2>2 DEF StuckOnlyThus, Inv, AtWork, Fetching
  <2> QED
    BY <2>1, <2>2
<1> QED
  BY <1>1, FedInductive, NoOtherDeadlock, PTL

-----------------------------------------------------------------------------
(* What is left to do: of the files, and of the steps parent and child can *)
(* take for the one at hand.                                               *)
FilesLeft == 2 * (Len(Sizes) + 1 - file) + (IF pc = "reset" THEN 1 ELSE 0)

ParentRank ==
  CASE pc = "feed"              -> IF snd_data THEN 5 ELSE 3
    [] pc = "fetch, then feed"  -> 4
    [] pc = "wait"              -> 2
    [] pc = "fetch, then close" -> 1
    [] OTHER                    -> 0

ChildRank ==
  CASE child = "running"                -> 3
    [] child \in {"reading", "writing"} -> 2
    [] child = "exiting"                -> IF fds["child"] = {} THEN 1 ELSE 2
    [] OTHER                            -> 0

Total(toSend, parent, ch, toRead, toSay, toFetch) ==
  toSend + parent + ch + 3 * toRead + 4 * toSay + toFetch

WorkLeft ==
  IF AtWork
  THEN Total(Sizes[file] - sent, ParentRank, ChildRank,
             need[file] - got, say[file] - said, Len(errPipe))
  ELSE 0

LEMMA TotalFalls ==
  ASSUME NEW t \in Int, NEW q \in Int, NEW c \in Int, NEW m \in Int, NEW n \in Int, NEW e \in Int,
         NEW tt \in Int, NEW qq \in Int, NEW cc \in Int,
         NEW mm \in Int, NEW nn \in Int, NEW ee \in Int,
         \/ tt < t /\ qq <= q /\ cc = c /\ mm = m /\ nn = n /\ ee = e
         \/ tt = t /\ qq = q /\ cc = c /\ mm = m /\ nn = n /\ ee < e
         \/ tt = t /\ qq < q /\ cc <= c /\ mm = m /\ nn = n /\ ee = e
         \/ tt = t /\ qq = q /\ cc < c /\ mm = m /\ nn = n /\ ee = e
         \/ tt = t /\ qq = q /\ cc <= c + 1 /\ mm < m /\ nn = n /\ ee = e
         \/ tt = t /\ qq = q /\ cc <= c + 1 /\ mm = m /\ nn < n /\ ee = e + 1
  PROVE  Total(tt, qq, cc, mm, nn, ee) < Total(t, q, c, m, n, e)
BY DEF Total

Progress ==
  \/ FilesLeft' < FilesLeft
  \/ FilesLeft' = FilesLeft /\ WorkLeft' < WorkLeft

LEMMA RankFacts ==
  ASSUME Inv
  PROVE  ParentRank \in 0..5 /\ ChildRank \in 0..3
<1>1. ParentRank \in 0..5
  BY DEF ParentRank
<1>2. ChildRank \in 0..3
  BY DEF ChildRank
<1> QED
  BY <1>1, <1>2

LEMMA WorkFacts ==
  ASSUME Inv, Fed, AtWork
  PROVE  /\ file \in Files
         /\ Sizes[file] \in Nat /\ sent \in Nat /\ sent <= Sizes[file]
         /\ need[file] \in Nat /\ got \in Nat /\ got <= need[file]
         /\ say[file] \in Nat /\ said \in Nat /\ said <= say[file]
         /\ Len(errPipe) \in Nat
<1>1. file \in Files /\ FedOK
  BY DEF Inv, Fed
<1>2. Sizes[file] \in Nat /\ need[file] \in Nat /\ say[file] \in Nat
  BY <1>1, SizesFacts, SayFacts DEF Fed
<1>3. sent \in Nat /\ got \in Nat /\ said \in Nat
  BY DEF Fed, Inv
<1>4. Len(errPipe) \in Nat
  <2>1. errPipe \in Seq(Nat \X Nat)
    BY DEF Inv
  <2> QED
    BY <2>1, LenProperties
<1> QED
  BY <1>1, <1>2, <1>3, <1>4 DEF FedOK

LEMMA LeftFacts ==
  ASSUME Inv, Fed
  PROVE  FilesLeft \in Nat /\ WorkLeft \in Nat
<1>1. FilesLeft \in Nat
  BY LengthFact DEF Fed, FilesLeft
<1>2. WorkLeft \in Nat
  <2>1. CASE AtWork
    <3>1. ParentRank \in 0..5 /\ ChildRank \in 0..3
      BY RankFacts
    <3>2. \A t, q, c, m, n, e \in Nat : Total(t, q, c, m, n, e) \in Nat
      BY DEF Total
    <3>3. /\ Sizes[file] - sent \in Nat /\ need[file] - got \in Nat /\ say[file] - said \in Nat
          /\ Len(errPipe) \in Nat
      BY <2>1, WorkFacts
    <3>4. ParentRank \in Nat /\ ChildRank \in Nat
      BY <3>1
    <3> QED
      BY <2>1, <3>2, <3>3, <3>4 DEF WorkLeft
  <2>2. CASE ~AtWork
    BY <2>2 DEF WorkLeft
  <2> QED
    BY <2>1, <2>2
<1> QED
  BY <1>1, <1>2

(* A step within a file's work: the sum of what is left falls.             *)
LEMMA WithinFile ==
  ASSUME Inv, Fed, Inv', Fed', AtWork, AtWork', UNCHANGED <<file, need, say>>,
         Total(Sizes[file] - sent', ParentRank', ChildRank',
               need[file] - got', say[file] - said', Len(errPipe'))
         < Total(Sizes[file] - sent, ParentRank, ChildRank,
                 need[file] - got, say[file] - said, Len(errPipe))
  PROVE  Progress
<1>1. FilesLeft' = FilesLeft
  BY DEF FilesLeft, AtWork, Fetching
<1>2. WorkLeft' < WorkLeft
  BY DEF WorkLeft
<1> QED
  BY <1>1, <1>2 DEF Progress

(* A step from file to file, or out of the program.                        *)
LEMMA FileProgress ==
  ASSUME Inv, Fed, Reset \/ ResetFails \/ Close
  PROVE  Progress
<1>1. file \in 1..(Len(Sizes) + 1) /\ Len(Sizes) \in Nat
  BY LengthFact DEF Fed
<1>2. CASE Reset \/ ResetFails
  <2>1. pc = "reset" /\ pc' # "reset" /\ file' = file
    BY <1>2 DEF Reset, ResetFails
  <2> QED
    BY <1>1, <2>1 DEF FilesLeft, Progress
<1>3. CASE Close
  <2>1. pc = "close" /\ pc' = "reset" /\ file' = file + 1
    BY <1>3 DEF Close
  <2> QED
    BY <1>1, <2>1 DEF FilesLeft, Progress
<1> QED
  BY <1>2, <1>3

LEMMA ParentProgress ==
  ASSUME Inv, Fed, Inv', Fed', Update \/ FetchSome \/ FetchEnd \/ Finalize \/ Wait
  PROVE  Progress
<1>1. AtWork /\ AtWork' /\ UNCHANGED <<file, need, say, got, said>>
  BY DEF Update, FetchSome, FetchEnd, Finalize, Wait, AtWork, Fetching, plan, childVars
<1>2. /\ Sizes[file] \in Nat /\ sent \in Nat /\ need[file] \in Nat /\ got \in Nat
      /\ say[file] \in Nat /\ said \in Nat /\ Len(errPipe) \in Nat
  BY <1>1, WorkFacts
<1>3. ParentRank \in 0..5 /\ ParentRank' \in 0..5 /\ ChildRank \in 0..3 /\ ChildRank' \in 0..3
  <2>1. ParentRank \in 0..5 /\ ChildRank \in 0..3
    BY RankFacts
  <2>2. ParentRank' \in 0..5
    BY DEF ParentRank
  <2>3. ChildRank' \in 0..3
    BY DEF ChildRank
  <2> QED
    BY <2>1, <2>2, <2>3
<1> DEFINE P == ParentRank   PP == ParentRank'
           C == ChildRank    CC == ChildRank'
           E == Len(errPipe) EE == Len(errPipe')
<1>4. \/ sent' = sent + 1 /\ PP <= P /\ CC = C /\ EE = E
      \/ sent' = sent /\ PP = P /\ CC = C /\ EE < E
      \/ sent' = sent /\ PP < P /\ CC <= C /\ EE = E
  <2>1. CASE Update
    <3>1. /\ sent' = sent + 1 /\ child' = child /\ fds' = fds /\ errPipe' = errPipe
          /\ pc = "feed"
          /\ \/ pc' = pc /\ snd_data' = snd_data
             \/ snd_data /\ pc' = "fetch, then feed"
      BY <2>1 DEF Update, childVars
    <3>2. PP <= P
      <4>1. CASE pc' = pc /\ snd_data' = snd_data
        <5>1. PP = P
          BY <4>1 DEF ParentRank, PP, P
        <5> QED
          BY <1>3, <5>1 DEF P
      <4>2. CASE snd_data /\ pc' = "fetch, then feed"
        <5>1. P = 5
          BY <3>1, <4>2 DEF ParentRank, P
        <5>2. PP = 4
          BY <4>2 DEF ParentRank, PP
        <5> QED
          BY <5>1, <5>2
      <4> QED
        BY <3>1, <4>1, <4>2
    <3>3. CC = C /\ EE = E
      BY <3>1 DEF ChildRank, CC, C, EE, E
    <3> QED
      BY <3>1, <3>2, <3>3
  <2>2. CASE FetchSome
    <3>1. /\ sent' = sent /\ child' = child /\ fds' = fds /\ errPipe # << >> /\ errPipe' = << >>
          /\ pc' = pc /\ snd_data' = snd_data
      BY <2>2 DEF FetchSome, childVars
    <3>2. PP = P /\ CC = C
      BY <3>1 DEF ParentRank, ChildRank, PP, P, CC, C
    <3>3. EE = 0 /\ E # 0
      <4>1. errPipe \in Seq(Nat \X Nat)
        BY DEF Inv
      <4> QED
        BY <3>1, <4>1, EmptySeq, LenProperties DEF EE, E
    <3> QED
      BY <1>2, <3>1, <3>2, <3>3 DEF E
  <2>3. CASE FetchEnd
    <3>1. /\ sent' = sent /\ child' = child /\ fds' = fds /\ errPipe' = errPipe
          /\ snd_data' = snd_data /\ pc \in Fetching
          /\ pc' = IF pc = "fetch, then feed" THEN "feed" ELSE "close"
      BY <2>3 DEF FetchEnd, childVars
    <3>2. pc = "fetch, then feed" => ~snd_data
      BY <1>1 DEF Inv, TakenOK
    <3>3. PP < P
      <4>1. CASE pc = "fetch, then feed"
        <5>1. P = 4
          BY <4>1 DEF ParentRank, P
        <5>2. PP = 3
          BY <3>1, <3>2, <4>1 DEF ParentRank, PP
        <5> QED
          BY <5>1, <5>2
      <4>2. CASE pc = "fetch, then close"
        <5>1. P = 1
          BY <4>2 DEF ParentRank, P
        <5>2. PP = 0
          BY <3>1, <4>2 DEF ParentRank, PP
        <5> QED
          BY <5>1, <5>2
      <4> QED
        BY <3>1, <4>1, <4>2 DEF Fetching
    <3>4. CC = C /\ EE = E
      BY <3>1 DEF ChildRank, CC, C, EE, E
    <3>5. CC <= C
      BY <1>3, <3>4 DEF C
    <3> QED
      BY <3>1, <3>3, <3>4, <3>5
  <2>4. CASE Finalize \/ Wait
    <3>1. /\ sent' = sent /\ fds' = fds /\ errPipe' = errPipe /\ snd_data' = snd_data
          /\ \/ pc = "feed" /\ pc' \in {"wait", "close"}
             \/ pc = "wait" /\ pc' = "fetch, then close"
          /\ child' = child \/ child' = "none"
      BY <2>4 DEF Finalize, Wait
    <3>2. PP < P
      <4>1. CASE pc = "feed" /\ pc' \in {"wait", "close"}
        <5>1. P \in {3, 5}
          BY <4>1 DEF ParentRank, P
        <5>2. PP \in {0, 2}
          BY <4>1 DEF ParentRank, PP
        <5> QED
          BY <5>1, <5>2
      <4>2. CASE pc = "wait" /\ pc' = "fetch, then close"
        <5>1. P = 2
          BY <4>2 DEF ParentRank, P
        <5>2. PP = 1
          BY <4>2 DEF ParentRank, PP
        <5> QED
          BY <5>1, <5>2
      <4> QED
        BY <3>1, <4>1, <4>2
    <3>3. CC <= C
      <4>1. CASE child' = child
        <5>1. CC = C
          BY <3>1, <4>1 DEF ChildRank, CC, C
        <5> QED
          BY <1>3, <5>1 DEF C
      <4>2. CASE child' = "none"
        <5>1. CC = 0
          BY <4>2 DEF ChildRank, CC
        <5> QED
          BY <1>3, <5>1 DEF C
      <4> QED
        BY <3>1, <4>1, <4>2
    <3>4. EE = E
      BY <3>1 DEF EE, E
    <3> QED
      BY <3>1, <3>2, <3>3, <3>4
  <2> QED
    BY <2>1, <2>2, <2>3, <2>4
<1>5. P \in 0..5 /\ PP \in 0..5 /\ C \in 0..3 /\ CC \in 0..3 /\ E \in Nat
  BY <1>2, <1>3
<1>6. EE \in Nat
  <2>1. errPipe' \in Seq(Nat \X Nat)
    BY DEF Inv
  <2> QED
    BY <2>1, LenProperties
<1>7. got' = got /\ said' = said
  BY <1>1
<1> HIDE DEF P, PP, C, CC, E, EE
<1> DEFINE t == Sizes[file] - sent   tt == Sizes[file] - sent'
           m == need[file] - got     n == say[file] - said
<1>8. t \in Int /\ tt \in Int /\ m \in Int /\ n \in Int /\ (tt < t \/ sent' = sent)
  BY <1>2, <1>4
<1>9. \/ tt < t /\ PP <= P /\ CC = C /\ EE = E
      \/ tt = t /\ PP = P /\ CC = C /\ EE < E
      \/ tt = t /\ PP < P /\ CC <= C /\ EE = E
  BY <1>2, <1>4
<1> HIDE DEF t, tt, m, n
<1>10. P \in Int /\ PP \in Int /\ C \in Int /\ CC \in Int /\ E \in Int /\ EE \in Int
  BY <1>5, <1>6
<1>11. Total(tt, PP, CC, m, n, EE) < Total(t, P, C, m, n, E)
  BY <1>8, <1>9, <1>10, TotalFalls
<1> QED
  BY <1>1, <1>7, <1>11, WithinFile DEF P, PP, C, CC, E, EE, t, tt, m, n

LEMMA ChildProgress ==
  ASSUME Inv, Fed, Inv', Fed', Child
  PROVE  Progress
<1>1. /\ child # "none"
      /\ UNCHANGED <<pc, file, need, say, sent, snd_data>>
  BY DEF Child, ChildChooses, ChildReads, ChildWrites, ChildCloses, ChildExits, plan
<1>2. AtWork /\ AtWork'
  BY <1>1 DEF Inv, AtWork
<1>3. /\ Sizes[file] \in Nat /\ sent \in Nat /\ need[file] \in Nat /\ got \in Nat
      /\ say[file] \in Nat /\ said \in Nat /\ Len(errPipe) \in Nat
  BY <1>2, WorkFacts
<1>4. ParentRank \in 0..5 /\ ChildRank \in 0..3
  BY RankFacts
<1>5. ParentRank' = ParentRank
  BY <1>1 DEF ParentRank
<1>6. Len(errPipe') \in Nat /\ got' \in Nat
  <2>1. errPipe' \in Seq(Nat \X Nat)
    BY DEF Inv
  <2> QED
    BY <2>1, LenProperties DEF Fed
<1> DEFINE P == ParentRank
           C == ChildRank    CC == ChildRank'
           E == Len(errPipe) EE == Len(errPipe')
<1>7. \/ got' = got /\ said' = said /\ CC < C /\ EE = E
      \/ got' > got /\ said' = said /\ CC <= C + 1 /\ EE = E
      \/ got' = got /\ said' = said + 1 /\ CC <= C + 1 /\ EE = E + 1
  <2>1. CASE ChildChooses
    <3>1. /\ child = "running" /\ child' \in {"reading", "writing", "exiting"}
          /\ got' = got /\ said' = said /\ errPipe' = errPipe
      BY <2>1 DEF ChildChooses
    <3>2. C = 3
      BY <3>1 DEF ChildRank, C
    <3>3. CC \in {1, 2}
      BY <3>1 DEF ChildRank, CC
    <3>4. EE = E
      BY <3>1 DEF EE, E
    <3> QED
      BY <3>1, <3>2, <3>3, <3>4
  <2>2. CASE ChildReads
    <3>1. child = "reading" /\ child' = "running" /\ said' = said /\ errPipe' = errPipe
      BY <2>2 DEF ChildReads
    <3>2. got' > got
      <4>1. got < need[file]
        BY <1>2, <3>1 DEF Fed, FedOK
      <4>2. got' \in {need[file], got + 1}
        BY <2>2 DEF ChildReads
      <4> QED
        BY <1>3, <4>1, <4>2
    <3>3. C = 2
      BY <3>1 DEF ChildRank, C
    <3>4. CC = 3
      BY <3>1 DEF ChildRank, CC
    <3>5. EE = E
      BY <3>1 DEF EE, E
    <3> QED
      BY <3>1, <3>2, <3>3, <3>4, <3>5
  <2>3. CASE ChildWrites
    <3>1. /\ child = "writing" /\ child' = "running" /\ got' = got /\ said' = said + 1
          /\ errPipe' = Append(errPipe, <<file, said + 1>>)
      BY <2>3 DEF ChildWrites
    <3>2. EE = E + 1
      <4>1. errPipe \in Seq(Nat \X Nat) /\ file \in Nat /\ said \in Nat
        BY DEF Inv
      <4>2. <<file, said + 1>> \in Nat \X Nat
        BY <4>1
      <4> QED
        BY <3>1, <4>1, <4>2, AppendProperties DEF EE, E
    <3>3. C = 2
      BY <3>1 DEF ChildRank, C
    <3>4. CC = 3
      BY <3>1 DEF ChildRank, CC
    <3> QED
      BY <3>1, <3>2, <3>3, <3>4
  <2>4. CASE ChildCloses
    <3>1. /\ child = "exiting" /\ child' = "exiting" /\ got' = got /\ said' = said
          /\ errPipe' = errPipe
          /\ "err write" \in fds["child"] /\ fds' = [fds EXCEPT !["child"] = {}]
      BY <2>4 DEF ChildCloses, childVars
    <3>2. fds'["child"] = {} /\ fds["child"] # {}
      BY <3>1 DEF Inv
    <3>3. C = 2
      BY <3>1, <3>2 DEF ChildRank, C
    <3>4. CC = 1
      BY <3>1, <3>2 DEF ChildRank, CC
    <3>5. EE = E
      BY <3>1 DEF EE, E
    <3>6. CC < C
      BY <3>3, <3>4
    <3>7. got' = got /\ said' = said
      BY <3>1
    <3> QED
      BY <3>5, <3>6, <3>7
  <2>5. CASE ChildExits
    <3>1. /\ child = "exiting" /\ child' = "exited" /\ got' = got /\ said' = said
          /\ errPipe' = errPipe /\ fds["child"] = {}
      BY <2>5 DEF ChildExits
    <3>2. C = 1
      BY <3>1 DEF ChildRank, C
    <3>3. CC = 0
      BY <3>1 DEF ChildRank, CC
    <3>4. EE = E
      BY <3>1 DEF EE, E
    <3> QED
      BY <3>1, <3>2, <3>3, <3>4
  <2> QED
    BY <2>1, <2>2, <2>3, <2>4, <2>5 DEF Child
<1>8. P \in Nat /\ C \in Nat /\ CC \in Nat /\ E \in Nat /\ EE \in Nat
  <2>1. CC \in 0..3
    BY DEF ChildRank
  <2> QED
    BY <1>3, <1>4, <1>6, <2>1
<1> HIDE DEF P, C, CC, E, EE
<1> DEFINE t == Sizes[file] - sent
           m == need[file] - got     mm == need[file] - got'
           n == say[file] - said     nn == say[file] - said'
<1>9. t \in Int /\ m \in Int /\ mm \in Int /\ n \in Int /\ nn \in Int
  <2>1. said' \in Nat
    BY DEF Inv
  <2>2. t \in Int
    BY <1>3 DEF t
  <2>3. m \in Int /\ mm \in Int
    BY <1>3, <1>6 DEF m, mm
  <2>4. n \in Int /\ nn \in Int
    BY <1>3, <2>1 DEF n, nn
  <2> QED
    BY <2>2, <2>3, <2>4
<1>10. \/ mm = m /\ nn = n /\ CC < C /\ EE = E
       \/ mm < m /\ nn = n /\ CC <= C + 1 /\ EE = E
       \/ mm = m /\ nn < n /\ CC <= C + 1 /\ EE = E + 1
  BY <1>3, <1>6, <1>7
<1> HIDE DEF t, m, mm, n, nn
<1>11. P \in Int /\ C \in Int /\ CC \in Int /\ E \in Int /\ EE \in Int
  BY <1>8
<1>12. Total(t, P, CC, mm, nn, EE) < Total(t, P, C, m, n, E)
  BY <1>9, <1>10, <1>11, TotalFalls
<1> QED
  BY <1>1, <1>2, <1>5, <1>12, WithinFile DEF P, C, CC, E, EE, t, m, mm, n, nn

(* No run goes on for ever: with every step there are fewer files left, or *)
(* as many and less to do for the one at hand, and neither can fall below  *)
(* 0.  So what does not end is stuck, in one of the ways of StuckOnlyThus  *)
(* (sump.h lines 347-418).                                                 *)
THEOREM EveryStepProgress ==
  Spec => [](FilesLeft \in Nat /\ WorkLeft \in Nat) /\ [][Progress]_vars
<1>1. Inv /\ Fed => FilesLeft \in Nat /\ WorkLeft \in Nat
  BY LeftFacts
<1>2. ASSUME Inv, Fed, Inv', Fed', Next PROVE Progress
  BY <1>2, FileProgress, ParentProgress, ChildProgress DEF Next, Parent
<1> QED
  BY <1>1, <1>2, FedInductive, PTL DEF Spec
=============================================================================
