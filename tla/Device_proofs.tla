---------------------------- MODULE Device_proofs ----------------------------
(***************************************************************************)
(* Proofs about Device, for any number of faults, secrets, connections and *)
(* addresses.  Each part of the device has an invariant of its own, which  *)
(* the steps of the other parts leave alone.                               *)
(***************************************************************************)
EXTENDS Device, FiniteSetTheorems, SequenceTheorems, TLAPS

-----------------------------------------------------------------------------
\* The fault record.

FaultTypes ==
  /\ magic \in BOOLEAN
  /\ fields \in Fault \cup {Torn} /\ fault \in Fault \cup {NoFault}
  /\ handling \in Fault \cup {NoFault}
  /\ handled \in {"none", "clear", "fields", "reboot"}
  /\ printed \in [Fault \cup {Torn} -> Nat]

\* A record that counts is whole and was not printed, nor is it being printed.
RecordIsNew == magic => fields \in Fault /\ printed[fields] = 0 /\ fields # fault

CopyIsNew == fault # NoFault => printed[fault] = 0

\* A fault that is being recorded is none of those known already.
HandlingIsNew ==
  /\ handled # "none" => handling \in Fault /\ printed[handling] = 0 /\ handling # fault
  /\ handled = "fields" => ~ magic

FaultInv == FaultTypes /\ RecordIsNew /\ CopyIsNew /\ HandlingIsNew /\ ReportsAreReal

LEMMA FaultStarts == FaultInit => FaultInv
<1> SUFFICES ASSUME FaultInit PROVE FaultInv
  OBVIOUS
<1>1. ~ magic /\ magic \in BOOLEAN
  BY DEF FaultInit
<1>2. FaultTypes
  BY <1>1 DEF FaultInit, FaultTypes
<1>3. RecordIsNew /\ CopyIsNew /\ HandlingIsNew
  BY DEF FaultInit, RecordIsNew, CopyIsNew, HandlingIsNew
<1>4. ReportsAreReal
  BY DEF FaultInit, ReportsAreReal
<1> QED
  BY <1>2, <1>3, <1>4 DEF FaultInv

LEMMA HardFaultKeeps ==
  ASSUME FaultInv, NEW f \in Fault, HardFault(f)
  PROVE  FaultInv'
  BY
  DEF HardFault, FaultInv, FaultTypes, RecordIsNew, CopyIsNew, HandlingIsNew,
      ReportsAreReal

LEMMA RecordingKeeps ==
  ASSUME FaultInv, ClearMagic \/ CommitRecord
  PROVE  FaultInv'
  BY FaultAssumption
  DEF ClearMagic, CommitRecord, FaultInv, FaultTypes, RecordIsNew, CopyIsNew,
      HandlingIsNew, ReportsAreReal

LEMMA BeginReportKeeps ==
  ASSUME FaultInv, BeginReport
  PROVE  FaultInv'
  BY FaultAssumption
  DEF BeginReport, FaultInv, FaultTypes, RecordIsNew, CopyIsNew, HandlingIsNew,
      ReportsAreReal

LEMMA PrintReportKeeps ==
  ASSUME FaultInv, PrintReport
  PROVE  FaultInv'
  BY FaultAssumption
  DEF PrintReport, FaultInv, FaultTypes, RecordIsNew, CopyIsNew, HandlingIsNew,
      ReportsAreReal

LEMMA FaultRestartKeeps ==
  ASSUME FaultInv, FaultReset \/ FaultPowerLoss
  PROVE  FaultInv'
<1> USE DEF FaultInv
<1>1. (magic' \in BOOLEAN) /\ (magic' => magic /\ fields' = fields)
  <2>1. CASE FaultReset
    BY <2>1 DEF FaultReset, FaultTypes
  <2>2. CASE FaultPowerLoss
    <3>1. ~ magic' /\ magic' \in BOOLEAN
      BY <2>2 DEF FaultPowerLoss
    <3> QED
      BY <3>1
  <2> QED
    BY <2>1, <2>2
<1>2. /\ fields' \in {fields, Torn} /\ printed' = printed
      /\ handling' = NoFault /\ handled' = "none" /\ fault' = NoFault
  BY DEF FaultReset, FaultPowerLoss
<1>3. FaultTypes'
  BY <1>1, <1>2 DEF FaultTypes
<1>4. RecordIsNew'
  BY <1>1, <1>2, FaultAssumption DEF RecordIsNew
<1>5. CopyIsNew' /\ HandlingIsNew' /\ ReportsAreReal'
  BY <1>2 DEF CopyIsNew, HandlingIsNew, ReportsAreReal
<1> QED
  BY <1>3, <1>4, <1>5

LEMMA FaultUntouched ==
  ASSUME FaultInv, UNCHANGED faultVars
  PROVE  FaultInv'
  BY
  DEF faultVars, FaultInv, FaultTypes, RecordIsNew, CopyIsNew, HandlingIsNew,
      ReportsAreReal

LEMMA FaultStep ==
  ASSUME FaultInv, [Next]_vars
  PROVE  FaultInv'
<1>1. CASE UNCHANGED faultVars
  BY <1>1, FaultUntouched
<1>2. CASE Faults
  BY <1>2, HardFaultKeeps, RecordingKeeps DEF Faults
<1>3. CASE Restart
  BY <1>3, FaultRestartKeeps DEF Restart
<1>4. CASE ReportFault \/ FaultReported
  BY <1>4, BeginReportKeeps, PrintReportKeeps DEF ReportFault, FaultReported
<1> QED
  BY <1>1, <1>2, <1>3, <1>4
  DEF Next, vars, NoFaultSaved, FindSecret, StartDisplay, Connected,
      AttemptFailed, GiveUp, ClockSet, Serve

-----------------------------------------------------------------------------
\* The secret.

SecretTypes ==
  /\ flash \in Key \cup {Blank}
  /\ store \in {"idle", "erase", "program", "verify", "done"}
  /\ promised \in Key \cup {NoSecret}

\* While a secret is stored there is none yet that could be lost.
StoresTheFirst ==
  store \in {"erase", "program", "verify"} => promised = NoSecret /\ secret \in Secret

PromiseIsStored == promised # NoSecret => flash = promised

SecretInv == SecretTypes /\ StoresTheFirst /\ PromiseIsStored /\ IdentityIsKept

LEMMA SecretStarts == SecretInit => SecretInv
  BY
  DEF SecretInit, SecretInv, SecretTypes, StoresTheFirst, PromiseIsStored,
      IdentityIsKept

LEMMA FindSecretKeeps ==
  ASSUME SecretInv, LoadSecret \/ GenerateSecret \/ EraseSector \/ ProgramPage \/ VerifyPage
  PROVE  SecretInv'
<1>1. CASE LoadSecret
  BY <1>1
  DEF LoadSecret, SecretInv, SecretTypes, StoresTheFirst, PromiseIsStored,
      IdentityIsKept
<1>2. CASE GenerateSecret
  BY <1>2, SecretAssumption
  DEF GenerateSecret, SecretInv, SecretTypes, StoresTheFirst, PromiseIsStored,
      IdentityIsKept
<1>3. CASE EraseSector
  BY <1>3
  DEF EraseSector, SecretInv, SecretTypes, StoresTheFirst, PromiseIsStored,
      IdentityIsKept
<1>4. CASE ProgramPage
  BY <1>4
  DEF ProgramPage, Key, SecretInv, SecretTypes, StoresTheFirst,
      PromiseIsStored, IdentityIsKept
<1>5. CASE VerifyPage
  BY <1>5
  DEF VerifyPage, StoredWell, Key, SecretInv, SecretTypes, StoresTheFirst,
      PromiseIsStored, IdentityIsKept
<1> QED
  BY <1>1, <1>2, <1>3, <1>4, <1>5

LEMMA SecretResetKeeps ==
  ASSUME SecretInv, SecretReset
  PROVE  SecretInv'
  BY
  DEF SecretReset, Key, SecretInv, SecretTypes, StoresTheFirst,
      PromiseIsStored, IdentityIsKept

LEMMA SecretUntouched ==
  ASSUME SecretInv, UNCHANGED secretVars
  PROVE  SecretInv'
  BY
  DEF secretVars, SecretInv, SecretTypes, StoresTheFirst, PromiseIsStored,
      IdentityIsKept

LEMMA SecretStep ==
  ASSUME SecretInv, [Next]_vars
  PROVE  SecretInv'
<1>1. CASE UNCHANGED secretVars
  BY <1>1, SecretUntouched
<1>2. CASE FindSecret
  BY <1>2, FindSecretKeeps DEF FindSecret
<1>3. CASE Restart
  BY <1>3, SecretResetKeeps DEF Restart
<1> QED
  BY <1>1, <1>2, <1>3
  DEF Next, vars, ReportFault, NoFaultSaved, FaultReported, StartDisplay,
      Connected, AttemptFailed, GiveUp, ClockSet, Serve, Faults

-----------------------------------------------------------------------------
\* Occurrences of an event among the first n of a sequence.

At(s, e, n) == {i \in 1 .. n : s[i] = e}
Count(s, e, n) == Cardinality(At(s, e, n))

LEMMA CountIsNat ==
  ASSUME NEW s, NEW e, NEW n \in Nat
  PROVE  IsFiniteSet(At(s, e, n)) /\ Count(s, e, n) \in Nat
<1>1. IsFiniteSet(1 .. n)
  BY FS_Interval
<1>2. At(s, e, n) \in SUBSET (1 .. n)
  BY DEF At
<1> QED
  BY <1>1, <1>2, FS_Subset, FS_CardinalityType DEF Count

LEMMA CountNone ==
  ASSUME NEW s, NEW e
  PROVE  Count(s, e, 0) = 0
<1>1. At(s, e, 0) = {}
  BY DEF At
<1> QED
  BY <1>1, FS_EmptySet DEF Count

\* Nothing that is appended counts among the elements before it.
LEMMA CountBefore ==
  ASSUME NEW S, NEW s \in Seq(S), NEW x \in S, NEW e, NEW n \in 0 .. Len(s)
  PROVE  Count(Append(s, x), e, n) = Count(s, e, n)
<1>1. At(Append(s, x), e, n) = At(s, e, n)
  BY DEF At
<1> QED
  BY <1>1 DEF Count

LEMMA CountAppend ==
  ASSUME NEW S, NEW s \in Seq(S), NEW x \in S, NEW e
  PROVE  Count(Append(s, x), e, Len(s) + 1)
           = Count(s, e, Len(s)) + (IF x = e THEN 1 ELSE 0)
<1>1. At(Append(s, x), e, Len(s) + 1)
        = IF x = e THEN At(s, e, Len(s)) \cup {Len(s) + 1} ELSE At(s, e, Len(s))
  BY DEF At
<1>2. Len(s) + 1 \notin At(s, e, Len(s))
  BY DEF At
<1>3. IsFiniteSet(At(s, e, Len(s))) /\ Count(s, e, Len(s)) \in Nat
  BY CountIsNat
<1>4. Cardinality(At(s, e, Len(s)) \cup {Len(s) + 1}) = Cardinality(At(s, e, Len(s))) + 1
  BY <1>2, <1>3, FS_AddElement
<1> QED
  BY <1>1, <1>3, <1>4 DEF Count

\* Without its first element a sequence has one occurrence less of that one.
LEMMA CountTail ==
  ASSUME NEW S, NEW s \in Seq(S), s # <<>>, NEW e, NEW n \in 0 .. Len(s) - 1
  PROVE  Count(s, e, n + 1) = Count(Tail(s), e, n) + (IF Head(s) = e THEN 1 ELSE 0)
<1> DEFINE B == At(Tail(s), e, n)
           C == {i \in 2 .. n + 1 : s[i] = e}
           shift == [i \in B |-> i + 1]
<1>1. shift \in [B -> C]
  BY DEF At
<1>2. ASSUME NEW i \in B, NEW j \in B, shift[i] = shift[j] PROVE i = j
  BY <1>2 DEF At
<1>3. ASSUME NEW j \in C PROVE \E i \in B : shift[i] = j
  <2>1. j - 1 \in B
    BY DEF At
  <2> QED
    BY <2>1
<1>4. ExistsBijection(B, C)
  <2> HIDE DEF B, C, shift
  <2> QED
    BY <1>1, <1>2, <1>3
    DEF ExistsBijection, Bijection, Injection, Surjection, IsInjective
<1>5. IsFiniteSet(B) /\ Cardinality(B) \in Nat
  BY CountIsNat DEF Count
<1>6. IsFiniteSet(C) /\ Cardinality(C) = Cardinality(B)
  BY <1>4, <1>5, FS_Bijection
<1>7. At(s, e, n + 1) = IF Head(s) = e THEN C \cup {1} ELSE C
  BY DEF At
<1>8. 1 \notin C
  OBVIOUS
<1>9. Cardinality(C \cup {1}) = Cardinality(C) + 1
  <2> HIDE DEF C
  <2> QED
    BY <1>6, <1>8, FS_AddElement
<1> QED
  BY <1>5, <1>6, <1>7, <1>9 DEF Count

-----------------------------------------------------------------------------
\* The connections and what is shown of them.

UiEvent == {"ConnectionEstablished", "EndedEstablished", "EndedEarly"}

Established == {c \in Conn : conn[c] = "established"}
Running == {c \in Conn : conn[c] \in {"started", "established"}}

ConnTypes ==
  /\ conn \in [Conn -> {"none", "spawned", "started", "established"}]
  /\ lit \in Nat /\ shown \in Nat
  /\ ui \in Seq(UiEvent)

Opened(n) == Count(ui, "ConnectionEstablished", n)
Closed(n) == Count(ui, "EndedEstablished", n)

\* A connection's beginning is in the channel in front of its end.
EventsInOrder == \A n \in 0 .. Len(ui) : shown + Opened(n) >= Closed(n)

ShownAgrees == shown + Opened(Len(ui)) = Closed(Len(ui)) + Cardinality(Established)

LitAgrees == lit = Cardinality(Running)

ConnInv == ConnTypes /\ EventsInOrder /\ ShownAgrees /\ LitAgrees

LEMMA ConnsFinite ==
  /\ IsFiniteSet(Established) /\ Cardinality(Established) \in Nat
  /\ IsFiniteSet(Running) /\ Cardinality(Running) \in Nat
  BY EchoAssumption, FS_Subset, FS_CardinalityType DEF Established, Running

LEMMA ConnsFiniteThen ==
  Cardinality(Established)' \in Nat
  BY EchoAssumption, FS_Subset, FS_CardinalityType DEF Established

\* A new run has neither connections nor events.
NoConns == conn = [c \in Conn |-> "none"] /\ lit = 0 /\ ui = <<>> /\ shown = 0

LEMMA ConnsStart == NoConns => ConnInv
<1> SUFFICES ASSUME NoConns PROVE ConnInv
  OBVIOUS
<1> USE DEF NoConns
<1>1. ConnTypes
  BY DEF ConnTypes
<1>2. Established = {} /\ Running = {}
  BY DEF Established, Running
<1>3. Opened(0) = 0 /\ Closed(0) = 0
  BY CountNone DEF Opened, Closed
<1>4. EventsInOrder
  BY <1>3 DEF EventsInOrder
<1>5. ShownAgrees /\ LitAgrees
  BY <1>2, <1>3, FS_EmptySet DEF ShownAgrees, LitAgrees
<1> QED
  BY <1>1, <1>4, <1>5 DEF ConnInv

\* An event more in the channel is the last one to count.
LEMMA EventSent ==
  ASSUME ConnInv, NEW x \in UiEvent, ui' = Append(ui, x), shown' = shown
  PROVE  /\ ui' \in Seq(UiEvent)
         /\ Opened(Len(ui))' = Opened(Len(ui))
              + (IF x = "ConnectionEstablished" THEN 1 ELSE 0)
         /\ Closed(Len(ui))' = Closed(Len(ui)) + (IF x = "EndedEstablished" THEN 1 ELSE 0)
         /\ Opened(Len(ui)) \in Nat /\ Closed(Len(ui)) \in Nat
         /\ ShownAgrees' => EventsInOrder'
<1>1. ui \in Seq(UiEvent) /\ Len(ui) \in Nat /\ shown \in Nat
  BY DEF ConnInv, ConnTypes
<1>2. ui' \in Seq(UiEvent) /\ Len(ui') = Len(ui) + 1
  BY <1>1
<1>3. ASSUME NEW n \in 0 .. Len(ui)
      PROVE  /\ Count(ui', "ConnectionEstablished", n) = Opened(n)
             /\ Count(ui', "EndedEstablished", n) = Closed(n)
  BY <1>1, CountBefore DEF Opened, Closed
<1>4. /\ Count(ui', "ConnectionEstablished", Len(ui'))
           = Opened(Len(ui)) + (IF x = "ConnectionEstablished" THEN 1 ELSE 0)
      /\ Count(ui', "EndedEstablished", Len(ui'))
           = Closed(Len(ui)) + (IF x = "EndedEstablished" THEN 1 ELSE 0)
  BY <1>1, CountAppend DEF Opened, Closed
<1>5. Opened(Len(ui)) \in Nat /\ Closed(Len(ui)) \in Nat
  BY CountIsNat DEF Opened, Closed
<1>6. Count(ui', "EndedEstablished", Len(ui')) \in Nat
  BY CountIsNat
<1>7. ASSUME ShownAgrees' PROVE EventsInOrder'
  <2>1. shown + Count(ui', "ConnectionEstablished", Len(ui'))
          >= Count(ui', "EndedEstablished", Len(ui'))
    <3>1. Cardinality(Established)' \in Nat
      BY ConnsFiniteThen
    <3> QED
      BY <1>6, <1>7, <3>1 DEF ShownAgrees, Opened, Closed
  <2>2. ASSUME NEW n \in 0 .. Len(ui')
        PROVE  shown + Count(ui', "ConnectionEstablished", n) >= Count(ui', "EndedEstablished", n)
    <3>1. CASE n \in 0 .. Len(ui)
      BY <1>3, <3>1 DEF ConnInv, EventsInOrder
    <3>2. CASE n = Len(ui')
      BY <2>1, <3>2
    <3> QED
      BY <3>1, <3>2
  <2> QED
    BY <2>2 DEF EventsInOrder, Opened, Closed
<1> QED
  BY <1>2, <1>4, <1>5, <1>7 DEF Opened, Closed

LEMMA AcceptKeeps ==
  ASSUME ConnInv, NEW c \in Conn, Accept(c)
  PROVE  ConnInv'
<1>1. Established' = Established /\ Running' = Running
  BY DEF Accept, Established, Running
<1>2. lit' = lit /\ ui' = ui /\ shown' = shown
  BY DEF Accept
<1>3. ConnTypes'
  BY DEF Accept, ConnInv, ConnTypes
<1> QED
  BY <1>1, <1>2, <1>3
  DEF ConnInv, EventsInOrder, ShownAgrees, LitAgrees, Opened, Closed

LEMMA StartConnectionKeeps ==
  ASSUME ConnInv, NEW c \in Conn, StartConnection(c)
  PROVE  ConnInv'
<1>1. Established' = Established /\ Running' = Running \cup {c} /\ c \notin Running
  BY DEF StartConnection, Established, Running, ConnInv, ConnTypes
<1>2. lit' = lit + 1 /\ ui' = ui /\ shown' = shown
  BY DEF StartConnection
<1>3. ConnTypes'
  BY DEF StartConnection, ConnInv, ConnTypes
<1>4. LitAgrees'
  BY <1>1, <1>2, ConnsFinite, FS_AddElement DEF ConnInv, LitAgrees
<1> QED
  BY <1>1, <1>2, <1>3, <1>4
  DEF ConnInv, EventsInOrder, ShownAgrees, Opened, Closed

LEMMA EstablishKeeps ==
  ASSUME ConnInv, NEW c \in Conn, Establish(c)
  PROVE  ConnInv'
<1>1. Established' = Established \cup {c} /\ c \notin Established /\ Running' = Running
  BY DEF Establish, Established, Running, ConnInv, ConnTypes
<1>2. lit' = lit /\ ui' = Append(ui, "ConnectionEstablished") /\ shown' = shown
  BY DEF Establish
<1>3. "ConnectionEstablished" \in UiEvent
  BY DEF UiEvent
<1>4. ConnTypes'
  BY <1>3 DEF Establish, ConnInv, ConnTypes
<1>5. Cardinality(Established') = Cardinality(Established) + 1
  BY <1>1, ConnsFinite, FS_AddElement
<1>6. ShownAgrees'
  BY <1>2, <1>3, <1>5, EventSent, ConnsFinite
  DEF ConnInv, ConnTypes, ShownAgrees
<1>7. EventsInOrder'
  BY <1>2, <1>3, <1>6, EventSent
<1> QED
  BY <1>1, <1>2, <1>4, <1>6, <1>7 DEF ConnInv, LitAgrees

LEMMA EndConnectionKeeps ==
  ASSUME ConnInv, NEW c \in Conn, EndConnection(c)
  PROVE  ConnInv'
<1>1. /\ Established' = Established \ {c} /\ (c \in Established <=> conn[c] = "established")
      /\ Running' = Running \ {c} /\ c \in Running
  BY DEF EndConnection, Established, Running, ConnInv, ConnTypes
<1>2. EndedEvent(c) \in UiEvent /\ ui' = Append(ui, EndedEvent(c)) /\ shown' = shown
  BY DEF EndConnection, EndedEvent, UiEvent
<1>3. EndedEvent(c) = IF c \in Established THEN "EndedEstablished" ELSE "EndedEarly"
  BY <1>1 DEF EndedEvent
<1>4. Cardinality(Running') = Cardinality(Running) - 1
  BY <1>1, ConnsFinite, FS_RemoveElement
<1>5. lit' \in Nat /\ LitAgrees'
  <2>1. Cardinality(Running) > 0
    BY <1>1, ConnsFinite, FS_EmptySet
  <2> QED
    BY <1>4, <2>1, ConnsFinite DEF EndConnection, ConnInv, LitAgrees
<1>6. ConnTypes'
  BY <1>2 DEF EndConnection, ConnInv, ConnTypes
<1>7. Cardinality(Established')
        = IF c \in Established THEN Cardinality(Established) - 1 ELSE Cardinality(Established)
  BY <1>1, ConnsFinite, FS_RemoveElement
<1>8. /\ Opened(Len(ui))' = Opened(Len(ui))
      /\ Closed(Len(ui))' = IF c \in Established THEN Closed(Len(ui)) + 1 ELSE Closed(Len(ui))
      /\ Opened(Len(ui)) \in Nat /\ Closed(Len(ui)) \in Nat
      /\ ShownAgrees' => EventsInOrder'
  BY <1>2, <1>3, EventSent
<1>9. ShownAgrees'
  BY <1>2, <1>7, <1>8, ConnsFinite DEF ConnInv, ShownAgrees
<1> QED
  BY <1>5, <1>6, <1>8, <1>9 DEF ConnInv

LEMMA HandleUiEventKeeps ==
  ASSUME ConnInv, HandleUiEvent
  PROVE  ConnInv'
<1> DEFINE open == IF Head(ui) = "ConnectionEstablished" THEN 1 ELSE 0
           close == IF Head(ui) = "EndedEstablished" THEN 1 ELSE 0
<1>1. /\ ui \in Seq(UiEvent) /\ ui # <<>> /\ shown \in Nat
      /\ Len(ui) \in Nat \ {0}
  BY DEF ConnInv, ConnTypes, HandleUiEvent
<1>2. Tail(ui) \in Seq(UiEvent) /\ Len(Tail(ui)) = Len(ui) - 1 /\ Head(ui) \in UiEvent
  BY <1>1
<1>3. ASSUME NEW n \in 0 .. Len(ui) - 1
      PROVE  /\ Opened(n + 1) = Count(Tail(ui), "ConnectionEstablished", n) + open
             /\ Closed(n + 1) = Count(Tail(ui), "EndedEstablished", n) + close
             /\ Count(Tail(ui), "ConnectionEstablished", n) \in Nat
             /\ Count(Tail(ui), "EndedEstablished", n) \in Nat
  BY <1>1, CountTail, CountIsNat DEF Opened, Closed
<1>4. shown' = shown + open - close /\ shown' \in Nat
  <2>1. Head(ui) = "EndedEstablished" => shown > 0
    <3>1. /\ Opened(1) = Count(Tail(ui), "ConnectionEstablished", 0) + open
          /\ Closed(1) = Count(Tail(ui), "EndedEstablished", 0) + close
      BY <1>1, <1>3
    <3>2. shown + Opened(1) >= Closed(1)
      BY <1>1 DEF ConnInv, EventsInOrder
    <3> QED
      BY <1>1, <3>1, <3>2, CountNone
  <2> QED
    BY <1>1, <2>1 DEF HandleUiEvent
<1>5. ui' = Tail(ui) /\ conn' = conn /\ lit' = lit
  BY DEF HandleUiEvent
<1>6. ConnTypes'
  BY <1>2, <1>4, <1>5 DEF ConnInv, ConnTypes
<1>7. ASSUME NEW n \in 0 .. Len(Tail(ui))
      PROVE  shown' + Count(Tail(ui), "ConnectionEstablished", n)
               >= Count(Tail(ui), "EndedEstablished", n)
  <2>1. n \in 0 .. Len(ui) - 1 /\ n + 1 \in 0 .. Len(ui)
    BY <1>1
  <2>2. shown + Opened(n + 1) >= Closed(n + 1)
    BY <2>1 DEF ConnInv, EventsInOrder
  <2> QED
    BY <1>1, <1>3, <1>4, <2>2
<1>8. EventsInOrder'
  BY <1>5, <1>7 DEF EventsInOrder, Opened, Closed
<1>9. shown' + Count(Tail(ui), "ConnectionEstablished", Len(Tail(ui)))
        = Count(Tail(ui), "EndedEstablished", Len(Tail(ui))) + Cardinality(Established)
  <2>1. Len(ui) - 1 \in 0 .. Len(ui) - 1 /\ (Len(ui) - 1) + 1 = Len(ui)
    BY <1>1
  <2>2. shown + Opened(Len(ui)) = Closed(Len(ui)) + Cardinality(Established)
    BY DEF ConnInv, ShownAgrees
  <2> DEFINE p == Count(Tail(ui), "ConnectionEstablished", Len(ui) - 1)
             q == Count(Tail(ui), "EndedEstablished", Len(ui) - 1)
  <2>3. Opened(Len(ui)) = p + open /\ Closed(Len(ui)) = q + close /\ p \in Nat /\ q \in Nat
    BY <1>3, <2>1
  <2>4. shown' + p = q + Cardinality(Established)
    <3> HIDE DEF p, q
    <3> QED
      BY <1>1, <1>4, <2>2, <2>3, ConnsFinite
  <2> QED
    BY <1>2, <2>4
<1>10. ShownAgrees' /\ LitAgrees'
  BY <1>5, <1>9
  DEF ConnInv, ShownAgrees, LitAgrees, Opened, Closed, Established, Running
<1> QED
  BY <1>6, <1>8, <1>10 DEF ConnInv

LEMMA ConnsUntouched ==
  ASSUME ConnInv, UNCHANGED conns
  PROVE  ConnInv'
  BY
  DEF conns, ConnInv, ConnTypes, EventsInOrder, ShownAgrees, LitAgrees, Opened,
      Closed, Established, Running

-----------------------------------------------------------------------------
\* The address and what is drawn of it.

AddrTypes ==
  /\ addr \in Addr /\ addr_shown \in Addr /\ sending \in Addr \cup {NoAddr}
  /\ addr_rx \in Seq(Addr)

\* What will be drawn when the channel is empty.
Drawn == IF addr_rx = <<>> THEN addr_shown ELSE addr_rx[Len(addr_rx)]

AddrInv ==
  /\ AddrTypes
  /\ ~ unseen => addr = IF sending # NoAddr THEN sending ELSE Drawn
  /\ led_state = addr_shown

\* A new run has yet to look at its address.
NewAddr ==
  /\ addr \in Addr /\ unseen = TRUE /\ sending = NoAddr /\ addr_rx = <<>>
  /\ addr_shown \in Addr /\ led_state = addr_shown

LEMMA AddrStarts == NewAddr => AddrInv
  BY DEF NewAddr, AddrInv, AddrTypes

LEMMA ChangeAddrKeeps ==
  ASSUME AddrInv, NEW a \in Addr, ChangeAddr(a)
  PROVE  AddrInv'
  BY DEF ChangeAddr, AddrInv, AddrTypes

LEMMA TakeAddrKeeps ==
  ASSUME AddrInv, TakeAddr
  PROVE  AddrInv'
  BY EchoAssumption DEF TakeAddr, AddrInv, AddrTypes

LEMMA SendAddrKeeps ==
  ASSUME AddrInv, SendAddr
  PROVE  AddrInv'
<1>1. addr_rx' = Append(addr_rx, sending) /\ sending \in Addr /\ addr_rx \in Seq(Addr)
  BY DEF SendAddr, AddrInv, AddrTypes
<1>2. addr_rx' # <<>> /\ addr_rx'[Len(addr_rx')] = sending /\ addr_rx' \in Seq(Addr)
  BY <1>1
<1>3. Drawn' = sending
  BY <1>2 DEF Drawn
<1> QED
  BY <1>3 DEF SendAddr, AddrInv, AddrTypes

LEMMA HandleAddrUpdateKeeps ==
  ASSUME AddrInv, HandleAddrUpdate
  PROVE  AddrInv'
<1>1. /\ addr_rx \in Seq(Addr) /\ addr_rx # <<>> /\ addr_rx' = Tail(addr_rx)
      /\ addr_shown' = Head(addr_rx)
  BY DEF HandleAddrUpdate, AddrInv, AddrTypes
<1>2. /\ addr_rx' \in Seq(Addr) /\ addr_shown' \in Addr
      /\ Len(addr_rx) \in Nat \ {0} /\ Len(addr_rx') = Len(addr_rx) - 1
      /\ Head(addr_rx) = addr_rx[1]
      /\ \A i \in 1 .. Len(addr_rx') : addr_rx'[i] = addr_rx[i + 1]
  BY <1>1
<1>3. Drawn' = Drawn
  <2>1. CASE addr_rx' = <<>>
    BY <1>1, <1>2 DEF Drawn
  <2>2. CASE addr_rx' # <<>>
    BY <1>1, <1>2 DEF Drawn
  <2> QED
    BY <2>1, <2>2
<1> QED
  BY <1>3 DEF HandleAddrUpdate, AddrInv, AddrTypes

LEMMA AddrUntouched ==
  ASSUME AddrInv, UNCHANGED addrs
  PROVE  AddrInv'
  BY DEF addrs, AddrInv, AddrTypes, Drawn

-----------------------------------------------------------------------------
\* The echo server as a whole.

EchoInv == ConnInv /\ AddrInv

LEMMA EchoStarts == EchoInit => EchoInv
  BY ConnsStart, AddrStarts DEF EchoInit, NoConns, NewAddr, EchoInv

LEMMA EchoResetKeeps ==
  ASSUME EchoReset
  PROVE  EchoInv'
<1>1. NoConns' /\ NewAddr'
  BY DEF EchoReset, NoConns, NewAddr
<1>2. NoConns' => ConnInv'
  BY ConnsStart, PTL
<1>3. NewAddr' => AddrInv'
  BY AddrStarts, PTL
<1> QED
  BY <1>1, <1>2, <1>3 DEF EchoInv

LEMMA EchoStepKeeps ==
  ASSUME EchoInv, EchoStep
  PROVE  EchoInv'
<1> USE DEF EchoInv
<1>1. ASSUME NEW c \in Conn, Accept(c) \/ StartConnection(c) \/ Establish(c) \/ EndConnection(c)
      PROVE  EchoInv'
  <2>1. ConnInv'
    BY <1>1, AcceptKeeps, StartConnectionKeeps, EstablishKeeps,
       EndConnectionKeeps
  <2>2. UNCHANGED addrs
    BY <1>1 DEF Accept, StartConnection, Establish, EndConnection
  <2> QED
    BY <2>1, <2>2, AddrUntouched
<1>2. CASE HandleUiEvent
  <2>1. UNCHANGED addrs
    BY <1>2 DEF HandleUiEvent
  <2> QED
    BY <1>2, <2>1, HandleUiEventKeeps, AddrUntouched
<1>3. ASSUME UNCHANGED conns, AddrInv' PROVE EchoInv'
  BY <1>3, ConnsUntouched
<1>4. CASE TakeAddr
  BY <1>3, <1>4, TakeAddrKeeps DEF TakeAddr
<1>5. CASE SendAddr
  BY <1>3, <1>5, SendAddrKeeps DEF SendAddr
<1>6. CASE HandleAddrUpdate
  BY <1>3, <1>6, HandleAddrUpdateKeeps DEF HandleAddrUpdate
<1>7. ASSUME NEW a \in Addr, ChangeAddr(a) PROVE EchoInv'
  BY <1>3, <1>7, ChangeAddrKeeps DEF ChangeAddr
<1> QED
  BY <1>1, <1>2, <1>4, <1>5, <1>6, <1>7 DEF EchoStep

LEMMA EchoUntouched ==
  ASSUME EchoInv, UNCHANGED echoVars
  PROVE  EchoInv'
<1>1. UNCHANGED conns /\ UNCHANGED addrs
  BY DEF echoVars, conns, addrs
<1> QED
  BY <1>1, ConnsUntouched, AddrUntouched DEF EchoInv

LEMMA EchoNext ==
  ASSUME EchoInv, [Next]_vars
  PROVE  EchoInv'
<1>1. CASE UNCHANGED echoVars
  BY <1>1, EchoUntouched
<1>2. CASE EchoStep
  BY <1>2, EchoStepKeeps
<1>3. CASE EchoReset
  BY <1>3, EchoResetKeeps
<1> QED
  BY <1>1, <1>2, <1>3
  DEF Next, vars, ReportFault, NoFaultSaved, FaultReported, FindSecret,
      StartDisplay, Connected, AttemptFailed, GiveUp, ClockSet, Serve, Faults,
      Restart

LEMMA EchoInvSuffices == EchoInv => DisplayFollowsEvents
<1> SUFFICES ASSUME EchoInv PROVE DisplayFollowsEvents
  OBVIOUS
<1>1. /\ ui \in Seq(UiEvent) /\ addr_rx \in Seq(Addr) /\ addr_shown \in Addr /\ shown \in Nat
  BY DEF EchoInv, ConnInv, ConnTypes, AddrInv, AddrTypes
<1>2. /\ Queued("ConnectionEstablished") = Opened(Len(ui))
      /\ Queued("EndedEstablished") = Closed(Len(ui))
  <2>1. DOMAIN ui = 1 .. Len(ui)
    OBVIOUS
  <2> QED
    BY <2>1 DEF Queued, Opened, Closed, Count, At
<1>3. Opened(Len(ui)) \in Nat /\ Closed(Len(ui)) \in Nat
  BY CountIsNat DEF Opened, Closed
<1>4. shown + Queued("ConnectionEstablished") - Queued("EndedEstablished")
        = Cardinality(Established)
  BY <1>1, <1>2, <1>3, ConnsFinite DEF EchoInv, ConnInv, ShownAgrees
<1>5. Last(<<addr_shown>> \o addr_rx) = Drawn
  BY DEF Last, Drawn
<1> QED
  BY <1>4, <1>5
  DEF EchoInv, ConnInv, LitAgrees, AddrInv, DisplayFollowsEvents, Established,
      Running

-----------------------------------------------------------------------------
(***************************************************************************)
(* presto_report_saved_fault prints a fault that happened, whole and once: *)
(* ReportsAreReal.                                                         *)
(***************************************************************************)
THEOREM FaultsReportedOnce == Spec => []ReportsAreReal
<1>1. Init => FaultInv
  BY FaultStarts DEF Init
<1>2. FaultInv /\ [Next]_vars => FaultInv'
  BY FaultStep
<1>3. FaultInv => ReportsAreReal
  BY DEF FaultInv
<1> QED
  BY <1>1, <1>2, <1>3, PTL DEF Spec

(***************************************************************************)
(* Once a boot has ended its search for the secret without a warning, all  *)
(* later ones find the same: IdentityIsKept.                               *)
(***************************************************************************)
THEOREM IdentityIsStable == Spec => []IdentityIsKept
<1>1. Init => SecretInv
  BY SecretStarts DEF Init
<1>2. SecretInv /\ [Next]_vars => SecretInv'
  BY SecretStep
<1>3. SecretInv => IdentityIsKept
  BY DEF SecretInv
<1> QED
  BY <1>1, <1>2, <1>3, PTL DEF Spec

(***************************************************************************)
(* The display's count, the LEDs and the drawn address agree with the      *)
(* connections and the address, for any number of connections and room in  *)
(* the channels: DisplayFollowsEvents.                                     *)
(***************************************************************************)
THEOREM DisplayIsCorrect == Spec => []DisplayFollowsEvents
<1>1. Init => EchoInv
  BY EchoStarts DEF Init
<1>2. EchoInv /\ [Next]_vars => EchoInv'
  BY EchoNext
<1>3. EchoInv => DisplayFollowsEvents
  BY EchoInvSuffices
<1> QED
  BY <1>1, <1>2, <1>3, PTL DEF Spec
=============================================================================
