--------------------------------- MODULE Keys ---------------------------------
(***************************************************************************)
(* The keys of thread-specific data (smp/pthread_impl.c) and the slots they *)
(* name in every thread (kern.h), on one CPU, where a call is one step.    *)
(* A slot is taken as long as its destructor is not null, so the slot of a *)
(* key without destructor stays free for the next pthread_key_create.  No  *)
(* exit of a thread ever runs a destructor.                                *)
(***************************************************************************)
EXTENDS Integers, Sequences

CONSTANTS Slots,    \* SMP_TLS_SLOTS
          Users,    \* the threads that use keys
          Values,   \* what they store
          MaxKeys   \* bound: keys created

ASSUME SlotAssumption == Slots \in Nat \ {0} /\ MaxKeys \in Nat

Null == 0
ASSUME ValueAssumption == Null \notin Values

VARIABLES taken,  \* the slots whose tls_dtor is not null
          tls,    \* the slots of each thread
          given,  \* the slot that each key created so far was given, 0 once deleted
          stored, \* what each thread has stored under each key that is not deleted
          loose,  \* the slots that a key without destructor has been given, and
          met     \* those where two keys have been live, until no key there is live

keyVars == <<taken, tls, given, stored, loose, met>>

KeysInit == /\ taken = {} /\ given = <<>> /\ loose = {} /\ met = {}
            /\ tls = [u \in Users |-> [k \in 1..Slots |-> Null]]
            /\ stored = [u \in Users |-> <<>>]

Free == (1..Slots) \ taken

\* The keys that name slot k.
Named(k) == {i \in DOMAIN given : given[i] = k}

\* A key with slot k, the lowest that is free.
Give(k, dtor) ==
  /\ k \in Free /\ (\A j \in Free : k <= j)
  /\ given' = Append(given, k)
  /\ stored' = [u \in Users |-> Append(stored[u], Null)]
  /\ loose' = IF dtor THEN loose ELSE loose \cup {k}
  /\ met' = IF Named(k) = {} THEN met ELSE met \cup {k}
  /\ UNCHANGED tls

\* Mutant: the slot is not marked.
KeyCreate_NotMarked ==
  /\ Len(given) < MaxKeys
  /\ \E k \in 1..Slots, dtor \in BOOLEAN : Give(k, dtor)
  /\ UNCHANGED taken

\* pthread_key_create, which marks the slot with the destructor, if there is one; it
\* fails when no slot is free.
KeyCreate ==
  /\ Len(given) < MaxKeys
  /\ \E k \in 1..Slots, dtor \in BOOLEAN :
       Give(k, dtor) /\ taken' = IF dtor THEN taken \cup {k} ELSE taken

\* pthread_key_delete unmarks the slot, whichever of its keys is deleted; the threads
\* keep what the slot holds.
KeyDelete(i) ==
  LET empty == IF Named(given[i]) = {i} THEN {given[i]} ELSE {}
  IN /\ given[i] # 0
     /\ taken' = taken \ {given[i]}
     /\ given' = [given EXCEPT ![i] = 0]
     /\ loose' = loose \ empty /\ met' = met \ empty
     /\ UNCHANGED <<tls, stored>>

\* pthread_setspecific.
SetSpecific(u, i, v) ==
  /\ given[i] # 0
  /\ tls' = [tls EXCEPT ![u][given[i]] = v]
  /\ stored' = [stored EXCEPT ![u][i] = v]
  /\ UNCHANGED <<taken, given, loose, met>>

\* pthread_getspecific, with the key's number.
GetSpecific(u, k) == IF k \in 1..Slots THEN tls[u][k] ELSE Null

KeysNext == \/ KeyCreate
            \/ \E i \in DOMAIN given : KeyDelete(i)
            \/ \E u \in Users, i \in DOMAIN given, v \in Values : SetSpecific(u, i, v)

KeysSpec == KeysInit /\ [][KeysNext]_keyVars

-----------------------------------------------------------------------------
\* Two live keys name one slot only where a key without destructor has been given it
\* (pthread_impl.c:142 tells a free slot by its null destructor).  Everywhere else a
\* thread finds under a live key what it has stored there last, whatever other threads
\* and other keys do; under a key it has stored nothing in, it finds null or what it
\* left under an earlier, deleted key.  No slot is marked without a live key.
KeysKept ==
  /\ \A i, j \in DOMAIN given :
       given[i] # 0 /\ given[i] = given[j] /\ i # j => given[i] \in met
  /\ met \subseteq loose
  /\ \A u \in Users, i \in DOMAIN given :
       given[i] \notin met \cup {0} /\ stored[u][i] # Null =>
         GetSpecific(u, given[i]) = stored[u][i]
  /\ \A u \in Users, i \in DOMAIN given :
       given[i] \notin met \cup {0} /\ (\A j \in DOMAIN given : j < i => stored[u][j] = Null) =>
         GetSpecific(u, given[i]) = stored[u][i]
  /\ \A k \in taken : \E i \in DOMAIN given : given[i] = k
================================================================================
