----------------------------- MODULE ShmWindow ------------------------------
(***************************************************************************)
(* kupl/memory/shm: every rank allocates its part of a shared window, rank *)
(* 0 fills its own, and after a barrier the other ranks copy it from rank  *)
(* 0's memory, check the copy and free the window.                         *)
(*                                                                         *)
(* MPI and KUPL are external.  A collective call returns when every rank   *)
(* has entered as many collective calls: collectives on a communicator     *)
(* match by their order, whatever function they come from.  KUPL is given  *)
(* MPI_Barrier and MPI_Allgather as callbacks for its own collectives.     *)
(* A rank's part of the window is gone when its kupl_shm_win_free returns. *)
(***************************************************************************)
EXTENDS Integers, Sequences

CONSTANTS
  World,   \* world_size
  Count    \* elements in a buffer

ASSUME SizesAssumption == World \in Nat \ {0} /\ Count \in Nat \ {0}

VARIABLES
  at,        \* rank -> the call it is at
  inside,    \* the ranks that are in a collective call
  entered,   \* rank -> how many collective calls it has entered
  left,      \* rank -> the elements its loop or memcpy has not dealt with
  window,    \* rank -> its part of the window, by element
  freed,     \* the ranks whose part is freed
  check      \* rank -> what it prints, "none" before

vars == <<at, inside, entered, left, window, freed, check>>

Rank == 0 .. World - 1
Element == 0 .. Count - 1
Unset == -1   \* what is in memory nobody has stored to

-----------------------------------------------------------------------------
(* The calls of main in program order.  fill is the loop of rank 0; memcpy *)
(* and check are what the other ranks do with the pointer they query.      *)

\* Mutant: the barrier stands within the branch of rank 0.
ScriptBarrierOfRank0(r) ==
  <<"kupl_shm_comm_create", "kupl_shm_win_alloc">>
  \o (IF r = 0 THEN <<"fill", "MPI_Barrier">> ELSE <<"memcpy", "check">>)
  \o <<"kupl_shm_win_free", "kupl_shm_comm_destroy", "MPI_Finalize">>

\* Mutant: there is no barrier between filling and copying.
ScriptNoBarrier(r) ==
  <<"kupl_shm_comm_create", "kupl_shm_win_alloc">>
  \o (IF r = 0 THEN <<"fill">> ELSE <<"memcpy", "check">>)
  \o <<"kupl_shm_win_free", "kupl_shm_comm_destroy", "MPI_Finalize">>

Script(r) ==
  <<"kupl_shm_comm_create", "kupl_shm_win_alloc">>
  \o (IF r = 0 THEN <<"fill">> ELSE <<>>)
  \o <<"MPI_Barrier">>
  \o (IF r # 0 THEN <<"memcpy", "check">> ELSE <<>>)
  \o <<"kupl_shm_win_free", "kupl_shm_comm_destroy", "MPI_Finalize">>

(* The calls that wait for the other ranks.                                *)
\* Mutant: kupl_shm_win_free does not wait for the other ranks.
CollectiveNotFree ==
  {"kupl_shm_comm_create", "kupl_shm_win_alloc", "MPI_Barrier", "kupl_shm_comm_destroy", "MPI_Finalize"}

Collective ==
  {"kupl_shm_comm_create", "kupl_shm_win_alloc", "MPI_Barrier", "kupl_shm_win_free",
   "kupl_shm_comm_destroy", "MPI_Finalize"}

Init ==
  /\ at = [r \in Rank |-> 1]
  /\ inside = {}
  /\ entered = [r \in Rank |-> 0]
  /\ left = [r \in Rank |-> Element]
  /\ window = [r \in Rank |-> [e \in Element |-> Unset]]
  /\ freed = {}
  /\ check = [r \in Rank |-> "none"]

-----------------------------------------------------------------------------
Call(r) == IF at[r] <= Len(Script(r)) THEN Script(r)[at[r]] ELSE "returned"

Pass(r) == at' = [at EXCEPT ![r] = @ + 1]

Enter(r) ==
  /\ Call(r) \notin {"fill", "memcpy", "check", "returned"}
  /\ r \notin inside
  /\ inside' = inside \cup {r}
  /\ entered' = [entered EXCEPT ![r] = IF Call(r) \in Collective THEN @ + 1 ELSE @]
  /\ UNCHANGED <<at, left, window, freed, check>>

Return(r) ==
  /\ r \in inside
  /\ Call(r) \in Collective => \A s \in Rank : entered[s] >= entered[r]
  /\ inside' = inside \ {r}
  /\ freed' = IF Call(r) = "kupl_shm_win_free" THEN freed \cup {r} ELSE freed
  /\ Pass(r)
  /\ UNCHANGED <<entered, left, window, check>>

(* One element of a loop over the buffer, or of a memcpy.                  *)
Store(r, e, value) ==
  /\ window' = [window EXCEPT ![r][e] = value]
  /\ left' = [left EXCEPT ![r] = @ \ {e}]
  /\ IF left[r] = {e} THEN Pass(r) ELSE UNCHANGED at
  /\ UNCHANGED <<inside, entered, freed, check>>

Fill(r, e) == Call(r) = "fill" /\ Store(r, e, e)

Memcpy(r, e) == Call(r) = "memcpy" /\ Store(r, e, window[0][e])

Check(r) ==
  /\ Call(r) = "check"
  /\ check' = [check EXCEPT ![r] =
       IF \A e \in Element : window[r][e] = e THEN "memcpy success" ELSE "memcpy fail"]
  /\ Pass(r)
  /\ UNCHANGED <<inside, entered, left, window, freed>>

RankNext(r) ==
  \/ Enter(r) \/ Return(r) \/ Check(r)
  \/ \E e \in left[r] : Fill(r, e) \/ Memcpy(r, e)

Next == \E r \in Rank : RankNext(r)

Spec == Init /\ [][Next]_vars
(* Every process runs on until it waits for the others.                    *)
FairSpec == Spec /\ \A r \in Rank : WF_vars(RankNext(r))

-----------------------------------------------------------------------------
(* Program counters and memory have their types, and a rank that is past   *)
(* its calls has returned from all of them.                                *)
TypeOK ==
  /\ DOMAIN at = Rank
  /\ \A r \in Rank : at[r] \in 1 .. Len(Script(r)) + 1
  /\ inside \subseteq {r \in Rank : Call(r) # "returned"}
  /\ entered \in [Rank -> Nat]
  /\ left \in [Rank -> SUBSET Element]
  /\ window \in [Rank -> [Element -> Element \cup {Unset}]]
  /\ freed \subseteq Rank
  /\ check \in [Rank -> {"none", "memcpy success", "memcpy fail"}]

(* Every rank other than 0 reads the values of rank 0 and prints success.  *)
CopySucceeds == \A r \in Rank : check[r] # "memcpy fail"

(* Rank 0's memory is there until the last rank has copied it, although    *)
(* rank 0 goes on to free it as soon as it is through the barrier.         *)
WindowOutlivesCopies ==
  \A r \in Rank : Call(r) = "memcpy" => freed \cap {0, r} = {}

(* What rank r is at does not hold it up: a call it can enter, a           *)
(* collective call that all have entered, an element to store, its check.  *)
GoesOn(r) ==
  \/ Call(r) \in Collective /\ r \notin inside
  \/ r \in inside /\ \A s \in Rank : entered[s] >= entered[r]
  \/ Call(r) \in {"fill", "memcpy"} /\ left[r] # {}
  \/ Call(r) = "check"

(* Never do all ranks that have not returned wait for one another in       *)
(* collective calls, although the ranks come through different branches    *)
(* and enter one call while others are still in the one before.            *)
NoDeadlock ==
  (\E r \in Rank : Call(r) # "returned") => \E r \in Rank : GoesOn(r)

(* No rank waits in a collective call for a rank that does not come.       *)
Terminates == <>(\A r \in Rank : Call(r) = "returned")
=============================================================================
