--------------------------- MODULE CircularStack ----------------------------
(***************************************************************************)
(* VCircularStack<T, N> and VSafeCircularStack<T, N> (VCommonDefines.h):   *)
(* the N most recent elements pushed since the last reset.  Every call of  *)
(* the safe one is made under its mutex, so a call is a step.              *)
(***************************************************************************)
EXTENDS Integers, Sequences

CONSTANTS Items,
          N,            \* the capacity
          Wrap,         \* index is a size_t, modulo Wrap = 2^w
          NoItem        \* a slot of datas that has not been written

ASSUME StackAssumption ==
  /\ N \in Nat \ {0} /\ Wrap \in Nat /\ Wrap > N
  /\ NoItem \notin Items

VARIABLES index, datas,
          result        \* what the last get stored through data_

stackVars == <<index, datas, result>>

StackInit ==
  /\ index = 0
  /\ datas = [k \in 0..(N - 1) |-> NoItem]
  /\ result = <<>>

\* datas[(index++) % N] = t
push_back(t) ==
  /\ datas' = [datas EXCEPT ![index % N] = t]
  /\ index' = (index + 1) % Wrap
  /\ UNCHANGED result

clear == index' = 0 /\ UNCHANGED <<datas, result>>

\* datas[from .. to - 1]
Copy(from, to) == [k \in 1..(to - from) |-> datas[from + k - 1]]

\* Mutant of Contents: the older part is copied last.
ContentsSwapped ==
  IF index >= N THEN Copy(0, index % N) \o Copy(index % N, N) ELSE Copy(0, index)

\* The older part of a full stack starts at index % N.
Contents ==
  IF index >= N THEN Copy(index % N, N) \o Copy(0, index % N) ELSE Copy(0, index)

\* get: a read of a full stack leaves index % N behind, even one that is not
\* to reset it.
get(bReset) ==
  /\ result' = Contents
  /\ index' = IF bReset THEN 0 ELSE IF index >= N THEN index % N ELSE index
  /\ UNCHANGED datas

StackNext == (\E t \in Items : push_back(t)) \/ clear \/ (\E b \in BOOLEAN : get(b))

StackSpec == StackInit /\ [][StackNext]_stackVars

-----------------------------------------------------------------------------
\* The stack implements the log of the most recent elements: get returns them
\* all, the oldest first, and what remains of them after a get that does not
\* reset, or when index wraps, is the most recent part.  A slot that has not
\* been written is never read.
Recent == INSTANCE RecentLog WITH recent <- Contents
RecentSpec == Recent!Spec
=============================================================================
