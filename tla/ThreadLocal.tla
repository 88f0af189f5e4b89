---------------------------- MODULE ThreadLocal ----------------------------
(***************************************************************************)
(* Thread-local storage of pico-std/c/esp-idf/src/pthread_local_storage.c: *)
(* the list of keys all tasks share, and each thread's list of values,     *)
(* which only the thread itself touches.                                   *)
(*                                                                         *)
(* The key list is read and written in critical sections, each of which is *)
(* one step.  pthread_key_delete enters its section twice and never leaves *)
(* it: the interrupts stay masked, and the task that called it is the only *)
(* one that runs from then on.                                             *)
(*                                                                         *)
(* Values are told apart and never set twice; what a thread without values *)
(* has, no list or an empty one, is not told apart.                        *)
(***************************************************************************)
EXTENDS Naturals, Sequences, SequencesExt, FiniteSets

CONSTANTS Task, Value, NoTask, Null, MaxKeys

ASSUME LocalAssumption ==
  Null \notin Value /\ NoTask \notin Task /\ MaxKeys \in Nat

VARIABLES
  s_keys,    \* the keys, the newest first; id tells reused numbers apart
  created,   \* number of keys created so far
  tls,       \* each thread's values, first to last
  pc,        \* each thread: "run", "cleanup", "call", "destructor", "done"
  entry,     \* the entry that a thread's cleanup has taken off its list
  key,       \* the key that find_key has returned for it
  fate,      \* of each value: "unused", "held", "dropped" or "destroyed"
  masked     \* the task that keeps the interrupts masked

vars == <<s_keys, created, tls, pc, entry, key, fate, masked>>

KeyEntry == [key : 1 .. MaxKeys, id : 1 .. MaxKeys, destructor : BOOLEAN]
ValueEntry == [key : 1 .. MaxKeys, value : Value, late : BOOLEAN]

Init ==
  /\ s_keys = <<>> /\ created = 0
  /\ tls = [t \in Task |-> <<>>]
  /\ pc = [t \in Task |-> "run"]
  /\ entry = [t \in Task |-> Null] /\ key = [t \in Task |-> Null]
  /\ fate = [v \in Value |-> "unused"]
  /\ masked = NoTask

Runs(t) == masked \in {NoTask, t}

\* The thread's own code runs, or a destructor it is called back in.
InUserCode(t) == pc[t] \in {"run", "destructor"} /\ Runs(t)

-----------------------------------------------------------------------------
\* Variant: keys are numbered by how many there are.
NumberByCount == Len(s_keys) + 1

NewKeyNumber == IF s_keys = <<>> THEN 1 ELSE Head(s_keys).key + 1

\* pthread_key_create.
KeyCreate(t) ==
  /\ InUserCode(t) /\ created < MaxKeys
  /\ \E d \in BOOLEAN :
       s_keys' = <<[key |-> NewKeyNumber, id |-> created + 1, destructor |-> d]>> \o s_keys
  /\ created' = created + 1
  /\ UNCHANGED <<tls, pc, entry, key, fate, masked>>

\* The index in a list of keys or of values of the first entry of a key, or 0.
IndexOf(list, k) == SelectInSeq(list, LAMBDA e : e.key = k)

FindKey(k) ==
  LET i == IndexOf(s_keys, k) IN IF i = 0 THEN Null ELSE s_keys[i]

KeysWithout(k) ==
  LET i == IndexOf(s_keys, k) IN IF i = 0 THEN s_keys ELSE RemoveAt(s_keys, i)

\* Variant: the critical section is left.
KeyDeleteUnmasked(t) ==
  /\ InUserCode(t)
  /\ \E k \in 1 .. MaxKeys : s_keys' = KeysWithout(k)
  /\ UNCHANGED <<created, tls, pc, entry, key, fate, masked>>

\* pthread_key_delete; the values of the key stay where they are.
KeyDelete(t) ==
  /\ InUserCode(t)
  /\ \E k \in 1 .. MaxKeys : s_keys' = KeysWithout(k)
  /\ masked' = t
  /\ UNCHANGED <<created, tls, pc, entry, key, fate>>

-----------------------------------------------------------------------------
\* Variant: new entries come first.
InsertFirst(list, e) == <<e>> \o list

InsertLast(list, e) == Append(list, e)

\* pthread_setspecific with a value: in place, or at the end of the list.
SetSpecific(t, k, v) ==
  /\ InUserCode(t) /\ FindKey(k) # Null
  /\ fate[v] = "unused"
  /\ LET i == IndexOf(tls[t], k)
         new == [key |-> k, value |-> v, late |-> pc[t] = "destructor"]
     IN IF i # 0
        THEN /\ tls' = [tls EXCEPT ![t][i].value = v]
             /\ fate' = [fate EXCEPT ![v] = "held", ![tls[t][i].value] = "dropped"]
        ELSE /\ tls' = [tls EXCEPT ![t] = InsertLast(tls[t], new)]
             /\ fate' = [fate EXCEPT ![v] = "held"]
  /\ UNCHANGED <<s_keys, created, pc, entry, key, masked>>

\* pthread_setspecific with NULL takes the entry off the list.
ClearSpecific(t, k) ==
  /\ InUserCode(t) /\ FindKey(k) # Null
  /\ LET i == IndexOf(tls[t], k) IN
       /\ i # 0
       /\ tls' = [tls EXCEPT ![t] = RemoveAt(tls[t], i)]
       /\ fate' = [fate EXCEPT ![tls[t][i].value] = "dropped"]
  /\ UNCHANGED <<s_keys, created, pc, entry, key, masked>>

-----------------------------------------------------------------------------
\* pthread_internal_local_storage_destructor_callback, at the thread's exit.
Exit(t) ==
  /\ pc[t] = "run" /\ Runs(t)
  /\ pc' = [pc EXCEPT ![t] = "cleanup"]
  /\ UNCHANGED <<s_keys, created, tls, entry, key, fate, masked>>

\* Variant: the entry stays on the list while its destructor runs.
PeekEntry(t) ==
  /\ pc[t] = "cleanup" /\ tls[t] # <<>> /\ Runs(t)
  /\ entry' = [entry EXCEPT ![t] = Head(tls[t])]
  /\ key' = [key EXCEPT ![t] = FindKey(Head(tls[t]).key)]
  /\ pc' = [pc EXCEPT ![t] = "call"]
  /\ UNCHANGED <<s_keys, created, tls, fate, masked>>

\* The first entry is taken off the list, its key looked up.
TakeEntry(t) ==
  /\ pc[t] = "cleanup" /\ tls[t] # <<>> /\ Runs(t)
  /\ entry' = [entry EXCEPT ![t] = Head(tls[t])]
  /\ tls' = [tls EXCEPT ![t] = Tail(@)]
  /\ key' = [key EXCEPT ![t] = FindKey(Head(tls[t]).key)]
  /\ pc' = [pc EXCEPT ![t] = "call"]
  /\ UNCHANGED <<s_keys, created, fate, masked>>

\* The key's destructor is read and called outside the critical section.
CallDestructor(t) ==
  /\ pc[t] = "call" /\ Runs(t)
  /\ LET called == key[t] # Null /\ key[t].destructor IN
       /\ fate' = [fate EXCEPT ![entry[t].value] = IF called THEN "destroyed" ELSE "dropped"]
       /\ pc' = [pc EXCEPT ![t] = IF called THEN "destructor" ELSE "cleanup"]
  /\ entry' = [entry EXCEPT ![t] = Null]
  /\ key' = [key EXCEPT ![t] = Null]
  /\ UNCHANGED <<s_keys, created, tls, masked>>

DestructorReturns(t) ==
  /\ pc[t] = "destructor" /\ Runs(t)
  /\ pc' = [pc EXCEPT ![t] = "cleanup"]
  /\ UNCHANGED <<s_keys, created, tls, entry, key, fate, masked>>

\* Variant: values set by a destructor are not waited for.
CleanupOldOnly(t) ==
  /\ pc[t] = "cleanup" /\ Runs(t)
  /\ \A i \in DOMAIN tls[t] : tls[t][i].late
  /\ tls' = [tls EXCEPT ![t] = <<>>]
  /\ pc' = [pc EXCEPT ![t] = "done"]
  /\ UNCHANGED <<s_keys, created, entry, key, fate, masked>>

\* The list is empty and freed; nothing of the thread's runs any more.
CleanupDone(t) ==
  /\ pc[t] = "cleanup" /\ tls[t] = <<>> /\ Runs(t)
  /\ pc' = [pc EXCEPT ![t] = "done"]
  /\ UNCHANGED <<s_keys, created, tls, entry, key, fate, masked>>

-----------------------------------------------------------------------------
Cleanup(t) == TakeEntry(t) \/ CallDestructor(t) \/ DestructorReturns(t) \/ CleanupDone(t)

Next == \E t \in Task :
  \/ KeyCreate(t) \/ KeyDelete(t) \/ Exit(t) \/ Cleanup(t)
  \/ \E k \in 1 .. MaxKeys : ClearSpecific(t, k) \/ \E v \in Value : SetSpecific(t, k, v)

Spec == Init /\ [][Next]_vars

\* Every ready task runs, and a destructor returns.
FairSpec == Spec /\ \A t \in Task : WF_vars(Cleanup(t))

-----------------------------------------------------------------------------
\* Every variable keeps its type, and no two keys on the list have one number.
TypeOK ==
  /\ s_keys \in Seq(KeyEntry) /\ created \in 0 .. MaxKeys
  /\ \A i, j \in DOMAIN s_keys : i < j => s_keys[i].key > s_keys[j].key
  /\ tls \in [Task -> Seq(ValueEntry)]
  /\ pc \in [Task -> {"run", "cleanup", "call", "destructor", "done"}]
  /\ entry \in [Task -> ValueEntry \cup {Null}] /\ key \in [Task -> KeyEntry \cup {Null}]
  /\ fate \in [Value -> {"unused", "held", "dropped", "destroyed"}]
  /\ masked \in Task \cup {NoTask}

\* Where a value is: at an index of a thread's list, or in its cleanup's hands.
At(t, v) ==
  {i \in DOMAIN tls[t] : tls[t][i].value = v}
    \cup {i \in {0} : pc[t] = "call" /\ entry[t].value = v}

Places(v) == UNION {{t} \X At(t, v) : t \in Task}

(***************************************************************************)
(* A value is in one place until it is replaced or handed to a destructor, *)
(* once, also when destructors set new values while the list is emptied:   *)
(* none is destroyed twice and none is left behind by a thread.            *)
(***************************************************************************)
ValuesMeetTheirEnd ==
  \A v \in Value : Cardinality(Places(v)) = IF fate[v] = "held" THEN 1 ELSE 0

(***************************************************************************)
(* "a destructor may call pthread_setspecific() to add a new non-NULL      *)
(* value to the list, and this should be processed after all other         *)
(* entries."                                                               *)
(***************************************************************************)
LateValuesComeLast ==
  \A t \in Task : \A i, j \in DOMAIN tls[t] : i < j /\ tls[t][i].late => tls[t][j].late

(***************************************************************************)
(* The key a cleanup has found is not freed before its destructor is read, *)
(* although no lock protects it: whoever deletes a key stops all others.   *)
(* To leave the critical section as intended takes away that protection.   *)
(***************************************************************************)
KeyInUseIsLive ==
  \A t \in Task : pc[t] = "call" /\ Runs(t) /\ key[t] # Null => key[t] \in ToSet(s_keys)

\* A thread's cleanup ends once its destructors set no more values, unless a
\* key is deleted and the system stops.
ExitCompletes == \A t \in Task : pc[t] = "cleanup" ~> pc[t] = "done" \/ masked # NoTask
=============================================================================
