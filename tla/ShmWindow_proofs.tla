-------------------------- MODULE ShmWindow_proofs --------------------------
(***************************************************************************)
(* For any number of ranks and elements: that the collective calls keep    *)
(* the ranks together closely enough for the copies to find what rank 0    *)
(* stored, and to find it before rank 0 frees it.                          *)
(***************************************************************************)
EXTENDS ShmWindow, SequenceTheorems, TLAPS

(* How many collective calls rank r has before call a.                     *)
CollectivesBefore(r, a) ==
  IF r = 0 THEN IF a <= 3 THEN a - 1 ELSE a - 2
  ELSE IF a <= 4 THEN a - 1 ELSE IF a <= 6 THEN 3 ELSE a - 3

(* How many a rank has returned from.                                      *)
Returned(r) == CollectivesBefore(r, at[r])

(* A rank has entered what it has returned from and what it is in, and     *)
(* every other rank has entered as many.                                   *)
InStep ==
  /\ \A r \in inside : Call(r) \in Collective
  /\ \A r \in Rank : entered[r] = Returned(r) + (IF r \in inside THEN 1 ELSE 0)
  /\ \A r, s \in Rank : entered[s] >= Returned(r)

(* Who has no element left is past its loop or its memcpy, and nobody else *)
(* is; what is not left is what rank 0 is to store.                                    *)
Stored ==
  /\ at[0] > 3 <=> left[0] = {}
  /\ \A r \in Rank \ {0} : at[r] > 4 <=> left[r] = {}
  /\ \A r \in Rank : \A e \in Element \ left[r] : window[r][e] = e

(* Who has freed its part has returned from four collective calls.         *)
FreedPast == \A r \in freed : Returned(r) >= 4

Inductive == TypeOK /\ InStep /\ Stored /\ FreedPast /\ CopySucceeds
-----------------------------------------------------------------------------
(* A sequence put together of two others.                                  *)
LEMMA Joined ==
  ASSUME NEW S, NEW s \in Seq(S), NEW t \in Seq(S), NEW u, u = s \o t
  PROVE  /\ u \in Seq(S) /\ Len(u) = Len(s) + Len(t)
         /\ \A i \in 1 .. Len(s) : u[i] = s[i]
         /\ \A i \in 1 .. Len(t) : u[Len(s) + i] = t[i]
<1>1. Len(s) \in Nat /\ Len(t) \in Nat
  OBVIOUS
<1>2. /\ s \o t \in Seq(S) /\ Len(s \o t) = Len(s) + Len(t)
      /\ \A i \in 1 .. Len(s) + Len(t) :
           (s \o t)[i] = IF i <= Len(s) THEN s[i] ELSE t[i - Len(s)]
  BY ConcatProperties, Zenon
<1>3. /\ u \in Seq(S) /\ Len(u) = Len(s) + Len(t)
      /\ \A i \in 1 .. Len(s) + Len(t) : u[i] = IF i <= Len(s) THEN s[i] ELSE t[i - Len(s)]
  BY <1>2, Zenon
<1>4. ASSUME NEW i \in 1 .. Len(s) PROVE u[i] = s[i]
  BY <1>1, <1>3
<1>5. ASSUME NEW i \in 1 .. Len(t) PROVE u[Len(s) + i] = t[i]
  BY <1>1, <1>3
<1> QED
  BY <1>3, <1>4, <1>5

(* The calls of rank 0, and those of the others.                           *)
LEMMA Scripts ==
  /\ Len(Script(0)) = 7
  /\ Script(0)[1] = "kupl_shm_comm_create" /\ Script(0)[2] = "kupl_shm_win_alloc"
  /\ Script(0)[3] = "fill" /\ Script(0)[4] = "MPI_Barrier"
  /\ Script(0)[5] = "kupl_shm_win_free" /\ Script(0)[6] = "kupl_shm_comm_destroy"
  /\ Script(0)[7] = "MPI_Finalize"
  /\ \A r \in Rank \ {0} :
       /\ Len(Script(r)) = 8
       /\ Script(r)[1] = "kupl_shm_comm_create" /\ Script(r)[2] = "kupl_shm_win_alloc"
       /\ Script(r)[3] = "MPI_Barrier" /\ Script(r)[4] = "memcpy" /\ Script(r)[5] = "check"
       /\ Script(r)[6] = "kupl_shm_win_free" /\ Script(r)[7] = "kupl_shm_comm_destroy"
       /\ Script(r)[8] = "MPI_Finalize"
<1> DEFINE first == <<"kupl_shm_comm_create", "kupl_shm_win_alloc">>
           fill == <<"fill">>
           barrier == <<"MPI_Barrier">>
           copy == <<"memcpy", "check">>
           last == <<"kupl_shm_win_free", "kupl_shm_comm_destroy", "MPI_Finalize">>
           call == Collective \cup {"fill", "memcpy", "check"}
<1>1. Len(first) = 2 /\ first[1] = "kupl_shm_comm_create" /\ first[2] = "kupl_shm_win_alloc"
  OBVIOUS
<1>2. Len(fill) = 1 /\ fill[1] = "fill"
  OBVIOUS
<1>3. Len(barrier) = 1 /\ barrier[1] = "MPI_Barrier"
  OBVIOUS
<1>4. Len(copy) = 2 /\ copy[1] = "memcpy" /\ copy[2] = "check"
  OBVIOUS
<1>5. /\ Len(last) = 3 /\ last[1] = "kupl_shm_win_free"
      /\ last[2] = "kupl_shm_comm_destroy" /\ last[3] = "MPI_Finalize"
  OBVIOUS
<1>6. /\ first \in Seq(call) /\ fill \in Seq(call) /\ barrier \in Seq(call)
      /\ copy \in Seq(call) /\ last \in Seq(call)
  BY DEF Collective
<1>7. Script(0) = first \o fill \o barrier \o <<>> \o last
  BY DEF Script
<1>8. ASSUME NEW r \in Rank \ {0} PROVE Script(r) = first \o <<>> \o barrier \o copy \o last
  BY DEF Script
<1> HIDE DEF first, fill, barrier, copy, last, call
<1>9. /\ Len(Script(0)) = 7
      /\ Script(0)[1] = first[1] /\ Script(0)[2] = first[2] /\ Script(0)[3] = fill[1]
      /\ Script(0)[4] = barrier[1] /\ Script(0)[5] = last[1] /\ Script(0)[6] = last[2]
      /\ Script(0)[7] = last[3]
  <2>1. PICK s : s = first \o fill
    OBVIOUS
  <2>m2. s \in Seq(call)
    BY <1>6, <2>1, Joined
  <2>2. /\ Len(s) = Len(first) + Len(fill)
        /\ \A i \in 1 .. Len(first) : s[i] = first[i]
        /\ \A i \in 1 .. Len(fill) : s[Len(first) + i] = fill[i]
    BY <1>6, <2>1, Joined
  <2>3. PICK t : t = s \o barrier
    OBVIOUS
  <2>m4. t \in Seq(call)
    BY <1>6, <2>m2, <2>3, Joined
  <2>4. /\ Len(t) = Len(s) + Len(barrier)
        /\ \A i \in 1 .. Len(s) : t[i] = s[i]
        /\ \A i \in 1 .. Len(barrier) : t[Len(s) + i] = barrier[i]
    BY <1>6, <2>m2, <2>3, Joined
  <2>5. Script(0) = t \o last
    BY <1>7, <2>1, <2>3, <2>m4, ConcatEmptySeq, Zenon
  <2>6. /\ Len(Script(0)) = Len(t) + Len(last)
        /\ \A i \in 1 .. Len(t) : Script(0)[i] = t[i]
        /\ \A i \in 1 .. Len(last) : Script(0)[Len(t) + i] = last[i]
    BY <1>6, <2>m4, <2>5, Joined
  <2>7. Len(s) = 3 /\ s[1] = first[1] /\ s[2] = first[2] /\ s[3] = fill[1]
    BY <1>1, <1>2, <2>2
  <2>8. Len(t) = 4 /\ t[1] = s[1] /\ t[2] = s[2] /\ t[3] = s[3] /\ t[4] = barrier[1]
    BY <1>3, <2>4, <2>7
  <2>9. /\ Len(Script(0)) = 7
        /\ Script(0)[1] = t[1] /\ Script(0)[2] = t[2] /\ Script(0)[3] = t[3]
        /\ Script(0)[4] = t[4] /\ Script(0)[5] = last[1] /\ Script(0)[6] = last[2]
        /\ Script(0)[7] = last[3]
    BY <1>5, <2>6, <2>8
  <2> QED
    BY <2>7, <2>8, <2>9
<1>10. ASSUME NEW r \in Rank \ {0}
       PROVE  /\ Len(Script(r)) = 8
              /\ Script(r)[1] = first[1] /\ Script(r)[2] = first[2] /\ Script(r)[3] = barrier[1]
              /\ Script(r)[4] = copy[1] /\ Script(r)[5] = copy[2] /\ Script(r)[6] = last[1]
              /\ Script(r)[7] = last[2] /\ Script(r)[8] = last[3]
  <2>1. PICK s : s = first \o barrier
    OBVIOUS
  <2>m2. s \in Seq(call)
    BY <1>6, <2>1, Joined
  <2>2. /\ Len(s) = Len(first) + Len(barrier)
        /\ \A i \in 1 .. Len(first) : s[i] = first[i]
        /\ \A i \in 1 .. Len(barrier) : s[Len(first) + i] = barrier[i]
    BY <1>6, <2>1, Joined
  <2>3. PICK t : t = s \o copy
    OBVIOUS
  <2>m4. t \in Seq(call)
    BY <1>6, <2>m2, <2>3, Joined
  <2>4. /\ Len(t) = Len(s) + Len(copy)
        /\ \A i \in 1 .. Len(s) : t[i] = s[i]
        /\ \A i \in 1 .. Len(copy) : t[Len(s) + i] = copy[i]
    BY <1>6, <2>m2, <2>3, Joined
  <2>5. Script(r) = t \o last
    BY <1>6, <1>8, <2>1, <2>3, ConcatEmptySeq, Zenon
  <2>6. /\ Len(Script(r)) = Len(t) + Len(last)
        /\ \A i \in 1 .. Len(t) : Script(r)[i] = t[i]
        /\ \A i \in 1 .. Len(last) : Script(r)[Len(t) + i] = last[i]
    BY <1>6, <2>m4, <2>5, Joined
  <2>7. Len(s) = 3 /\ s[1] = first[1] /\ s[2] = first[2] /\ s[3] = barrier[1]
    BY <1>1, <1>3, <2>2
  <2>8. /\ Len(t) = 5 /\ t[1] = s[1] /\ t[2] = s[2] /\ t[3] = s[3]
        /\ t[4] = copy[1] /\ t[5] = copy[2]
    BY <1>4, <2>4, <2>7
  <2>9. /\ Len(Script(r)) = 8
        /\ Script(r)[1] = t[1] /\ Script(r)[2] = t[2] /\ Script(r)[3] = t[3]
        /\ Script(r)[4] = t[4] /\ Script(r)[5] = t[5] /\ Script(r)[6] = last[1]
        /\ Script(r)[7] = last[2] /\ Script(r)[8] = last[3]
    BY <1>5, <2>6, <2>8
  <2> QED
    BY <2>7, <2>8, <2>9
<1> QED
  BY <1>1, <1>2, <1>3, <1>4, <1>5, <1>9, <1>10

(* Where a rank is and what it calls there.                                *)
LEMMA Positions ==
  ASSUME TypeOK, NEW r \in Rank
  PROVE  /\ at[r] \in Nat /\ at[r] >= 1 /\ Returned(r) \in Nat /\ Len(Script(r)) \in Nat
         /\ Call(r) \in Collective \cup {"fill", "memcpy", "check", "returned"}
         /\ Call(r) # "returned" => at[r] + 1 \in 1 .. Len(Script(r)) + 1
         /\ Call(r) \in Collective => CollectivesBefore(r, at[r] + 1) = Returned(r) + 1
         /\ Call(r) \in {"fill", "memcpy", "check"} => CollectivesBefore(r, at[r] + 1) = Returned(r)
         /\ Call(r) = "returned" => Returned(r) = 6
         /\ Call(r) \in Collective => Returned(r) < 6
         /\ Call(r) = "fill" <=> r = 0 /\ at[r] = 3
         /\ Call(r) = "memcpy" <=> r # 0 /\ at[r] = 4
         /\ Call(r) = "check" <=> r # 0 /\ at[r] = 5
         /\ Call(r) = "kupl_shm_win_free" => Returned(r) = 3
<1>1. CASE r = 0
  <2>0. Len(Script(r)) = 7
    BY <1>1, Scripts, Zenon
  <2>1. Len(Script(r)) = 7 /\ at[r] \in 1 .. 8
    <3>1. at[r] \in 1 .. Len(Script(r)) + 1
      BY DEF TypeOK
    <3> QED
      BY <2>0, <3>1
  <2>2. \/ at[r] = 1 /\ Call(r) = "kupl_shm_comm_create"
        \/ at[r] = 2 /\ Call(r) = "kupl_shm_win_alloc"
        \/ at[r] = 3 /\ Call(r) = "fill"
        \/ at[r] = 4 /\ Call(r) = "MPI_Barrier"
        \/ at[r] = 5 /\ Call(r) = "kupl_shm_win_free"
        \/ at[r] = 6 /\ Call(r) = "kupl_shm_comm_destroy"
        \/ at[r] = 7 /\ Call(r) = "MPI_Finalize"
        \/ at[r] = 8 /\ Call(r) = "returned"
    BY <1>1, <2>1, Scripts DEF Call
  <2> QED
    <3>1. at[r] \in Nat /\ Len(Script(r)) = 7
      BY <2>1
    <3>2. \A a \in Nat : CollectivesBefore(r, a) = IF a <= 3 THEN a - 1 ELSE a - 2
      BY <1>1 DEF CollectivesBefore
    <3>3. /\ at[r] >= 1 /\ Returned(r) \in Nat
          /\ Call(r) # "returned" => at[r] + 1 \in 1 .. Len(Script(r)) + 1
          /\ Call(r) \in Collective => CollectivesBefore(r, at[r] + 1) = Returned(r) + 1
          /\ Call(r) \in {"fill", "memcpy", "check"} => CollectivesBefore(r, at[r] + 1) = Returned(r)
          /\ Call(r) = "returned" => Returned(r) = 6
          /\ Call(r) \in Collective => Returned(r) < 6
          /\ Call(r) = "kupl_shm_win_free" => Returned(r) = 3
      BY <2>2, <3>1, <3>2 DEF Returned, Collective
    <3>4. /\ Call(r) \in Collective \cup {"fill", "returned"}
          /\ Call(r) # "memcpy" /\ Call(r) # "check"
          /\ Call(r) = "fill" <=> at[r] = 3
      BY <2>2 DEF Collective
    <3> QED
      BY <1>1, <3>1, <3>3, <3>4
<1>2. CASE r # 0
  <2>0. Len(Script(r)) = 8
    <3>1. r \in Rank \ {0}
      BY <1>2
    <3> QED
      BY <3>1, Scripts, Zenon
  <2>1. Len(Script(r)) = 8 /\ at[r] \in 1 .. 9
    <3>1. at[r] \in 1 .. Len(Script(r)) + 1
      BY DEF TypeOK
    <3> QED
      BY <2>0, <3>1
  <2>2. \/ at[r] = 1 /\ Call(r) = "kupl_shm_comm_create"
        \/ at[r] = 2 /\ Call(r) = "kupl_shm_win_alloc"
        \/ at[r] = 3 /\ Call(r) = "MPI_Barrier"
        \/ at[r] = 4 /\ Call(r) = "memcpy"
        \/ at[r] = 5 /\ Call(r) = "check"
        \/ at[r] = 6 /\ Call(r) = "kupl_shm_win_free"
        \/ at[r] = 7 /\ Call(r) = "kupl_shm_comm_destroy"
        \/ at[r] = 8 /\ Call(r) = "MPI_Finalize"
        \/ at[r] = 9 /\ Call(r) = "returned"
    BY <1>2, <2>1, Scripts DEF Call
  <2> QED
    <3>1. at[r] \in Nat /\ Len(Script(r)) = 8
      BY <2>1
    <3>2. \A a \in Nat :
            CollectivesBefore(r, a) = IF a <= 4 THEN a - 1 ELSE IF a <= 6 THEN 3 ELSE a - 3
      BY <1>2 DEF CollectivesBefore
    <3> QED
      BY <1>2, <2>2, <3>1, <3>2 DEF Returned, Collective
<1> QED
  BY <1>1, <1>2

LEMMA InductiveInit == ASSUME Init PROVE Inductive
<1>1. \A r \in Rank : at[r] = 1 /\ Len(Script(r)) \in Nat
  BY Scripts DEF Init
<1>2. TypeOK
  BY <1>1 DEF Init, TypeOK
<1>3. InStep
  BY <1>1 DEF Init, InStep, Returned, CollectivesBefore
<1>4. Stored
  <2>1. 0 \in Rank /\ Element # {}
    BY SizesAssumption DEF Rank, Element
  <2>2. \A r \in Rank : at[r] = 1 /\ left[r] = Element
    BY <1>1 DEF Init
  <2>3. ~(1 > 3) /\ ~(1 > 4)
    OBVIOUS
  <2> QED
    BY <2>1, <2>2, <2>3 DEF Stored
<1>5. FreedPast /\ CopySucceeds
  BY DEF Init, FreedPast, CopySucceeds
<1> QED
  BY <1>2, <1>3, <1>4, <1>5 DEF Inductive

(* A rank that enters a call has entered one more than it has returned     *)
(* from.                                                                   *)
LEMMA EnterStep ==
  ASSUME Inductive, NEW r \in Rank, Enter(r) PROVE Inductive'
<1>0. TypeOK /\ InStep /\ Stored /\ FreedPast /\ CopySucceeds
  BY DEF Inductive
<1>1. /\ Call(r) \in Collective /\ Call(r) # "returned" /\ r \notin inside
      /\ inside' = inside \cup {r} /\ entered' = [entered EXCEPT ![r] = @ + 1]
      /\ UNCHANGED <<at, left, window, freed, check>>
  BY <1>0, Positions DEF Enter, Collective
<1>2. \A s \in Rank : Call(s)' = Call(s) /\ Returned(s)' = Returned(s)
  BY <1>1 DEF Call, Returned
<1>3. entered \in [Rank -> Nat] /\ entered' \in [Rank -> Nat]
  <2>1. entered \in [Rank -> Nat]
    BY <1>0 DEF TypeOK
  <2> QED
    BY <1>1, <2>1
<1>4. TypeOK'
  <2>1. \A s \in inside' : s \in Rank /\ Call(s)' # "returned"
    BY <1>0, <1>1, <1>2 DEF TypeOK
  <2> QED
    BY <1>0, <1>1, <1>3, <2>1 DEF TypeOK
<1>5. InStep'
  <2>1. \A s \in inside' : Call(s) \in Collective /\ s \in Rank
    BY <1>0, <1>1 DEF InStep, TypeOK
  <2>2. ASSUME NEW s \in Rank
        PROVE  entered'[s] = Returned(s) + (IF s \in inside' THEN 1 ELSE 0)
    <3>1. entered[s] = Returned(s) + (IF s \in inside THEN 1 ELSE 0) /\ Returned(s) \in Nat
      BY <1>0, Positions DEF InStep
    <3> QED
      BY <1>1, <1>3, <3>1
  <2>3. ASSUME NEW s \in Rank, NEW t \in Rank PROVE entered'[s] >= Returned(t)
    <3>1. entered[s] >= Returned(t) /\ Returned(t) \in Nat
      BY <1>0, Positions DEF InStep
    <3> QED
      BY <1>1, <1>3, <3>1
  <2> QED
    BY <1>2, <2>1, <2>2, <2>3 DEF InStep
<1>6. FreedPast' /\ Stored' /\ CopySucceeds'
  <2>1. freed \subseteq Rank
    BY <1>0 DEF TypeOK
  <2> QED
    BY <1>0, <1>1, <1>2, <2>1 DEF FreedPast, Stored, CopySucceeds
<1> QED
  BY <1>4, <1>5, <1>6 DEF Inductive

(* A rank returns when all have entered the call it is in.                 *)
LEMMA ReturnStep ==
  ASSUME Inductive, NEW r \in Rank, Return(r) PROVE Inductive'
<1>0. TypeOK /\ InStep /\ Stored /\ FreedPast /\ CopySucceeds
  BY DEF Inductive
<1>1. /\ Call(r) \in Collective /\ Call(r) # "returned" /\ r \in inside
      /\ \A s \in Rank : entered[s] >= entered[r]
      /\ inside' = inside \ {r} /\ at' = [at EXCEPT ![r] = @ + 1]
      /\ freed' = IF Call(r) = "kupl_shm_win_free" THEN freed \cup {r} ELSE freed
      /\ UNCHANGED <<entered, left, window, check>>
  BY <1>0 DEF Return, Pass, InStep, TypeOK
<1>2. /\ at'[r] = at[r] + 1 /\ DOMAIN at' = Rank
      /\ \A s \in Rank \ {r} : at'[s] = at[s]
  BY <1>0, <1>1 DEF TypeOK
<1>3. /\ Returned(r)' = Returned(r) + 1
      /\ \A s \in Rank \ {r} : Call(s)' = Call(s) /\ Returned(s)' = Returned(s)
  <2>1. Returned(r)' = CollectivesBefore(r, at'[r])
    BY DEF Returned
  <2>2. Returned(r)' = Returned(r) + 1
    BY <1>0, <1>1, <1>2, <2>1, Positions
  <2> QED
    BY <1>2, <2>2 DEF Call, Returned
<1>4. TypeOK'
  <2>1. \A s \in inside' : s \in Rank /\ Call(s)' # "returned"
    BY <1>0, <1>1, <1>3 DEF TypeOK
  <2>2. \A s \in Rank : at'[s] \in 1 .. Len(Script(s)) + 1
    <3>1. at[r] + 1 \in 1 .. Len(Script(r)) + 1
      BY <1>0, <1>1, Positions
    <3> QED
      BY <1>0, <1>2, <3>1 DEF TypeOK
  <2> QED
    BY <1>0, <1>1, <1>2, <2>1, <2>2 DEF TypeOK
<1>5. entered \in [Rank -> Nat] /\ \A s \in Rank : Returned(s) \in Nat
  BY <1>0, Positions DEF TypeOK
<1>6. InStep'
  <2>1. \A s \in inside' : Call(s)' \in Collective
    BY <1>0, <1>1, <1>3 DEF InStep, TypeOK
  <2>2. ASSUME NEW s \in Rank
        PROVE  entered'[s] = Returned(s)' + (IF s \in inside' THEN 1 ELSE 0)
    <3>1. entered[s] = Returned(s) + (IF s \in inside THEN 1 ELSE 0)
      BY <1>0 DEF InStep
    <3> QED
      BY <1>1, <1>3, <1>5, <3>1
  <2>3. ASSUME NEW s \in Rank, NEW t \in Rank PROVE entered'[s] >= Returned(t)'
    <3>1. entered[s] >= Returned(t) /\ entered[r] = Returned(r) + 1
      BY <1>0, <1>1 DEF InStep
    <3> QED
      BY <1>1, <1>3, <1>5, <3>1
  <2> QED
    BY <2>1, <2>2, <2>3 DEF InStep
<1>7. FreedPast'
  <2> SUFFICES ASSUME NEW s \in freed' PROVE Returned(s)' >= 4
    BY DEF FreedPast
  <2>1. CASE s \in freed
    <3>1. s \in Rank /\ Returned(s) \in Nat /\ Returned(s) >= 4
      BY <1>0, <1>5, <2>1 DEF FreedPast, TypeOK
    <3>2. Returned(s)' = Returned(s) \/ Returned(s)' = Returned(s) + 1
      BY <1>3, <3>1
    <3> QED
      BY <3>1, <3>2
  <2>2. CASE s = r /\ Call(r) = "kupl_shm_win_free"
    BY <1>0, <1>3, <2>2, Positions
  <2> QED
    BY <1>1, <2>1, <2>2
<1>8. Stored'
  <2>1. 0 \in Rank
    BY SizesAssumption DEF Rank
  <2>2. r = 0 => at[0] # 3
    BY <1>0, <1>1, Positions DEF Collective
  <2>3. r # 0 => at[r] # 4
    BY <1>0, <1>1, Positions DEF Collective
  <2>4. \A s \in Rank : at[s] \in Nat
    BY <1>0, Positions
  <2>5. at'[0] > 3 <=> left[0] = {}
    BY <1>0, <1>2, <2>1, <2>2, <2>4 DEF Stored
  <2>6. \A s \in Rank \ {0} : at'[s] > 4 <=> left[s] = {}
    BY <1>0, <1>2, <2>3, <2>4 DEF Stored
  <2> QED
    BY <1>0, <1>1, <2>5, <2>6 DEF Stored
<1> QED
  BY <1>0, <1>1, <1>4, <1>6, <1>7, <1>8 DEF Inductive, CopySucceeds

(* A rank that copies is past the barrier, so rank 0 is at it: it has      *)
(* stored all elements.                                                    *)
LEMMA FilledBeforeCopy ==
  ASSUME TypeOK, InStep, Stored, NEW r \in Rank, Call(r) = "memcpy"
  PROVE  r # 0 /\ \A e \in Element : window[0][e] = e
<1>1. 0 \in Rank
  BY SizesAssumption DEF Rank
<1>2. r # 0 /\ at[r] = 4 /\ Returned(r) = 3
  BY Positions DEF Returned, CollectivesBefore
<1>3. entered[0] >= 3 /\ entered[0] = Returned(0) + (IF 0 \in inside THEN 1 ELSE 0)
  BY <1>1, <1>2 DEF InStep
<1>4. 0 \in inside => at[0] # 3
  BY <1>1, Positions DEF InStep, Collective
<1>5. at[0] \in Nat /\ Returned(0) = IF at[0] <= 3 THEN at[0] - 1 ELSE at[0] - 2
  BY <1>1, Positions DEF Returned, CollectivesBefore
<1>6. at[0] > 3
  BY <1>3, <1>4, <1>5
<1>7. left[0] = {} /\ \A e \in Element : window[0][e] = e
  BY <1>1, <1>6 DEF Stored
<1> QED
  BY <1>2, <1>7
(* What stays when a rank goes on within or past a call that waits for     *)
(* nobody.                                                                 *)
LEMMA LocalStep ==
  ASSUME TypeOK, InStep, FreedPast, NEW r \in Rank,
         Call(r) \in {"fill", "memcpy", "check"},
         at' = [at EXCEPT ![r] = @ + 1] \/ at' = at,
         UNCHANGED <<inside, entered, freed>>
  PROVE  /\ DOMAIN at' = Rank
         /\ \A s \in Rank : at'[s] \in 1 .. Len(Script(s)) + 1
         /\ inside' \subseteq {s \in Rank : Call(s)' # "returned"}
         /\ InStep' /\ FreedPast'
<1>1. r \notin inside
  BY DEF InStep, Collective
<1>2. /\ DOMAIN at' = Rank /\ \A s \in Rank \ {r} : at'[s] = at[s]
      /\ at'[r] = at[r] \/ at'[r] = at[r] + 1
  BY DEF TypeOK
<1>3. \A s \in Rank \ {r} : Call(s)' = Call(s)
  BY <1>2 DEF Call
<1>4. ASSUME NEW s \in Rank PROVE Returned(s)' = Returned(s)
  <2>1. Returned(s)' = CollectivesBefore(s, at'[s]) /\ Returned(s) = CollectivesBefore(s, at[s])
    BY DEF Returned
  <2>2. CollectivesBefore(r, at[r] + 1) = CollectivesBefore(r, at[r])
    BY Positions DEF Returned
  <2> QED
    BY <1>2, <2>1, <2>2
<1>5. \A s \in Rank : at'[s] \in 1 .. Len(Script(s)) + 1
  <2>1. at[r] + 1 \in 1 .. Len(Script(r)) + 1
    BY Positions
  <2> QED
    BY <1>2, <2>1 DEF TypeOK
<1>6. inside' \subseteq {s \in Rank : Call(s)' # "returned"}
  BY <1>1, <1>3 DEF TypeOK
<1>7. InStep'
  <2>1. \A s \in inside' : Call(s)' \in Collective
    BY <1>1, <1>3 DEF InStep, TypeOK
  <2> QED
    BY <1>4, <2>1 DEF InStep
<1>8. FreedPast'
  BY <1>4 DEF FreedPast, TypeOK
<1> QED
  BY <1>2, <1>5, <1>6, <1>7, <1>8

(* A rank stores an element of rank 0 in its part.                         *)
LEMMA StoreStep ==
  ASSUME Inductive, NEW r \in Rank, NEW e \in left[r],
         Call(r) \in {"fill", "memcpy"}, Store(r, e, e)
  PROVE  Inductive'
<1>0. TypeOK /\ InStep /\ Stored /\ FreedPast /\ CopySucceeds
  BY DEF Inductive
<1>1. /\ window' = [window EXCEPT ![r][e] = e]
      /\ left' = [left EXCEPT ![r] = @ \ {e}]
      /\ \/ left[r] = {e} /\ at' = [at EXCEPT ![r] = @ + 1]
         \/ left[r] # {e} /\ at' = at
      /\ UNCHANGED <<inside, entered, freed, check>>
  BY DEF Store, Pass
<1>2. /\ left \in [Rank -> SUBSET Element] /\ e \in Element
      /\ window \in [Rank -> [Element -> Element \cup {Unset}]]
  BY <1>0 DEF TypeOK
<1>3. /\ left' \in [Rank -> SUBSET Element] /\ left'[r] = left[r] \ {e}
      /\ \A s \in Rank \ {r} : left'[s] = left[s]
  BY <1>1, <1>2
<1>4. /\ window' \in [Rank -> [Element -> Element \cup {Unset}]]
      /\ \A s \in Rank \ {r} : window'[s] = window[s]
      /\ \A f \in Element : window'[r][f] = IF f = e THEN e ELSE window[r][f]
  BY <1>1, <1>2
<1>5. /\ DOMAIN at' = Rank
      /\ \A s \in Rank : at'[s] \in 1 .. Len(Script(s)) + 1
      /\ inside' \subseteq {s \in Rank : Call(s)' # "returned"}
      /\ InStep' /\ FreedPast'
  BY <1>0, <1>1, LocalStep
<1>6. TypeOK'
  BY <1>0, <1>1, <1>3, <1>4, <1>5 DEF TypeOK
<1>7. Stored'
  <2>1. 0 \in Rank
    BY SizesAssumption DEF Rank
  <2>2. (r = 0 => at[0] = 3) /\ (r # 0 => at[r] = 4)
    BY <1>0, Positions
  <2>3. /\ at'[r] = IF left[r] = {e} THEN at[r] + 1 ELSE at[r]
        /\ \A s \in Rank \ {r} : at'[s] = at[s]
    BY <1>0, <1>1 DEF TypeOK
  <2>7. left'[r] = {} <=> left[r] = {e}
    BY <1>3
  <2>4. at'[0] > 3 <=> left'[0] = {}
    <3>1. CASE r = 0
      BY <2>2, <2>3, <2>7, <3>1
    <3>2. CASE r # 0
      BY <1>0, <1>3, <2>1, <2>3, <3>2 DEF Stored
    <3> QED
      BY <3>1, <3>2
  <2>5. ASSUME NEW s \in Rank \ {0} PROVE at'[s] > 4 <=> left'[s] = {}
    <3>1. CASE r = s
      BY <2>2, <2>3, <2>7, <3>1
    <3>2. CASE r # s
      BY <1>0, <1>3, <2>3, <3>2 DEF Stored
    <3> QED
      BY <3>1, <3>2
  <2>6. ASSUME NEW s \in Rank, NEW f \in Element \ left'[s] PROVE window'[s][f] = f
    BY <1>0, <1>3, <1>4 DEF Stored
  <2> QED
    BY <2>4, <2>5, <2>6 DEF Stored
<1> QED
  BY <1>0, <1>1, <1>5, <1>6, <1>7 DEF Inductive, CopySucceeds

(* A rank that checks has nothing left to copy.                            *)
LEMMA CheckStep ==
  ASSUME Inductive, NEW r \in Rank, Check(r) PROVE Inductive'
<1>0. TypeOK /\ InStep /\ Stored /\ FreedPast /\ CopySucceeds
  BY DEF Inductive
<1>1. r # 0 /\ at[r] = 5
  BY <1>0, Positions DEF Check
<1>2. \A e \in Element : window[r][e] = e
  BY <1>0, <1>1 DEF Stored
<1>3. /\ check' = [check EXCEPT ![r] = "memcpy success"] /\ at' = [at EXCEPT ![r] = @ + 1]
      /\ UNCHANGED <<inside, entered, left, window, freed>>
  BY <1>2 DEF Check, Pass
<1>4. /\ DOMAIN at' = Rank
      /\ \A s \in Rank : at'[s] \in 1 .. Len(Script(s)) + 1
      /\ inside' \subseteq {s \in Rank : Call(s)' # "returned"}
      /\ InStep' /\ FreedPast'
  BY <1>0, <1>3, LocalStep DEF Check
<1>5. TypeOK' /\ CopySucceeds'
  BY <1>0, <1>3, <1>4 DEF TypeOK, CopySucceeds
<1>6. Stored'
  <2>1. 0 \in Rank
    BY SizesAssumption DEF Rank
  <2>2. \A s \in Rank \ {r} : at'[s] = at[s]
    BY <1>0, <1>3 DEF TypeOK
  <2>3. at[r] > 4 /\ at'[r] > 4 /\ at'[0] = at[0]
    <3>1. at'[r] = at[r] + 1
      BY <1>0, <1>3 DEF TypeOK
    <3> QED
      BY <1>1, <2>1, <2>2, <3>1
  <2> QED
    BY <1>0, <1>3, <2>2, <2>3 DEF Stored
<1> QED
  BY <1>4, <1>5, <1>6 DEF Inductive
-----------------------------------------------------------------------------
(* The invariant, for any number of ranks and elements.                    *)
THEOREM Invariance == Spec => []Inductive
<1>1. Init => Inductive
  BY InductiveInit
<1>2. Inductive /\ [Next]_vars => Inductive'
  <2> SUFFICES ASSUME Inductive, [Next]_vars PROVE Inductive'
    OBVIOUS
  <2>1. ASSUME NEW r \in Rank, RankNext(r) PROVE Inductive'
    <3>1. ASSUME NEW e \in left[r], Fill(r, e) PROVE Inductive'
      BY <3>1, StoreStep DEF Fill
    <3>2. ASSUME NEW e \in left[r], Memcpy(r, e) PROVE Inductive'
      <4>1. e \in Element
        BY DEF Inductive, TypeOK
      <4>2. window[0][e] = e
        BY <3>2, <4>1, FilledBeforeCopy DEF Inductive, Memcpy
      <4> QED
        BY <3>2, <4>2, StoreStep DEF Memcpy
    <3> QED
      BY <2>1, <3>1, <3>2, EnterStep, ReturnStep, CheckStep DEF RankNext
  <2>2. CASE UNCHANGED vars
    BY <2>2 DEF vars, Inductive, TypeOK, InStep, Stored, FreedPast, CopySucceeds, Call, Returned
  <2> QED
    BY <2>1, <2>2 DEF Next
<1> QED
  BY <1>1, <1>2, PTL DEF Spec

(* With any number of ranks and elements every rank other than 0 reads     *)
(* what rank 0 stored.                                                     *)
THEOREM CopiesSucceed == Spec => []CopySucceeds
<1>1. Inductive => CopySucceeds
  BY DEF Inductive
<1> QED
  BY <1>1, Invariance, PTL

(* And no part of the window is freed under a memcpy: who has freed its    *)
(* part knows that all have entered kupl_shm_win_free.                     *)
THEOREM WindowsOutlive == Spec => []WindowOutlivesCopies
<1>1. Inductive => WindowOutlivesCopies
  <2> SUFFICES ASSUME Inductive, NEW r \in Rank, Call(r) = "memcpy", NEW s \in freed
               PROVE  FALSE
    BY DEF WindowOutlivesCopies
  <2>1. r \notin inside
    BY DEF Inductive, InStep, Collective
  <2>2. at[r] = 4 /\ r # 0
    BY Positions DEF Inductive
  <2>3. entered[r] = 3
    BY <2>1, <2>2 DEF Inductive, InStep, Returned, CollectivesBefore
  <2>4. s \in Rank /\ Returned(s) \in Nat
    BY Positions DEF Inductive, TypeOK
  <2>5. Returned(s) >= 4 /\ entered[r] >= Returned(s)
    BY <2>4 DEF Inductive, FreedPast, InStep
  <2> QED
    BY <2>3, <2>4, <2>5
<1> QED
  BY <1>1, Invariance, PTL

(* A rank that waits is one call ahead of another, which has not returned, *)
(* since it still has that call before it.                                 *)
LEMMA WaitsForOneBehind ==
  ASSUME Inductive, NEW r \in Rank, Call(r) # "returned", ~GoesOn(r)
  PROVE  /\ entered[r] = Returned(r) + 1 /\ Returned(r) < 6
         /\ \E s \in Rank : entered[s] = Returned(r)
<1>1. TypeOK /\ InStep /\ Stored
  BY DEF Inductive
<1>2. Call(r) \notin {"fill", "memcpy"}
  <2>1. left[r] = {} => Call(r) \notin {"fill", "memcpy"}
    BY <1>1, Positions DEF Stored
  <2> QED
    BY <2>1 DEF GoesOn
<1>3. Call(r) \in Collective /\ r \in inside
  BY <1>1, <1>2, Positions DEF GoesOn
<1>4. PICK s \in Rank : ~(entered[s] >= entered[r])
  BY <1>3 DEF GoesOn
<1>5. /\ entered[r] = Returned(r) + 1 /\ entered[s] >= Returned(r)
      /\ Returned(r) \in Nat /\ entered[s] \in Nat
  BY <1>1, <1>3, Positions DEF InStep, TypeOK
<1> QED
  BY <1>1, <1>3, <1>4, <1>5, Positions

(* And never do all ranks wait: the rank that one waits for waits for a    *)
(* third only if that is two calls behind the first, and nobody is.        *)
THEOREM NoneWaitForEver == Spec => []NoDeadlock
<1>1. Inductive => NoDeadlock
  <2> SUFFICES ASSUME Inductive, NEW r \in Rank, Call(r) # "returned",
                      \A t \in Rank : ~GoesOn(t)
               PROVE  FALSE
    BY DEF NoDeadlock
  <2>1. PICK s \in Rank : entered[s] = Returned(r)
    BY WaitsForOneBehind
  <2>2. Returned(r) < 6 /\ Returned(r) \in Nat /\ Returned(s) \in Nat
    BY WaitsForOneBehind, Positions DEF Inductive
  <2>3. Call(s) # "returned"
    <3>1. entered[s] >= Returned(s)
      BY <2>2 DEF Inductive, InStep
    <3> QED
      BY <2>1, <2>2, <3>1, Positions DEF Inductive
  <2>4. entered[s] = Returned(s) + 1
    BY <2>3, WaitsForOneBehind
  <2>5. PICK t \in Rank : entered[t] = Returned(s)
    BY <2>3, WaitsForOneBehind
  <2>6. entered[t] >= Returned(r)
    BY DEF Inductive, InStep
  <2> QED
    BY <2>1, <2>2, <2>4, <2>5, <2>6
<1> QED
  BY <1>1, Invariance, PTL
=============================================================================
