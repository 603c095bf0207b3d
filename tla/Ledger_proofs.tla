---------------------------- MODULE Ledger_proofs ----------------------------
(***************************************************************************)
(* The sorting line keeps the promise of ObjectLedger about the objects on *)
(* its belt: every step of SortingSystem is a step of the ledger or leaves *)
(* it alone, for every value of the constants.                             *)
(***************************************************************************)
EXTENDS SortingSystem_proofs, FiniteSetTheorems

----------------------------------------------------------------------------
(* Counting the words of a kind on a line.                                 *)

LEMMA PlacesFinite ==
  ASSUME NEW S, NEW line \in Seq(S), NEW words
  PROVE  IsFiniteSet({i \in DOMAIN line : line[i] \in words})
<1>1. DOMAIN line = 1..Len(line) /\ Len(line) \in Nat
  BY LenProperties
<1>2. IsFiniteSet(DOMAIN line)
  BY <1>1, FS_Interval
<1>. QED BY <1>2, FS_Subset

LEMMA OccurrencesType ==
  ASSUME NEW S, NEW line \in Seq(S), NEW words
  PROVE  Occurrences(line, words) \in Nat
BY PlacesFinite, FS_CardinalityType DEF Occurrences

LEMMA OccurrencesEmpty ==
  ASSUME NEW words
  PROVE  Occurrences(<<>>, words) = 0
<1>1. {i \in DOMAIN <<>> : <<>>[i] \in words} = {}
  OBVIOUS
<1>. QED BY <1>1, FS_EmptySet DEF Occurrences

LEMMA OccurrencesOne ==
  ASSUME NEW word, NEW words
  PROVE  Occurrences(<<word>>, words) = Once(word \in words)
<1>1. DOMAIN <<word>> = {1} /\ <<word>>[1] = word
  OBVIOUS
<1>2. CASE word \in words
  <2>1. {i \in DOMAIN <<word>> : <<word>>[i] \in words} = {1}
    BY <1>1, <1>2
  <2>. QED BY <1>2, <2>1, FS_Singleton DEF Occurrences, Once
<1>3. CASE word \notin words
  <2>1. {i \in DOMAIN <<word>> : <<word>>[i] \in words} = {}
    BY <1>1, <1>3
  <2>. QED BY <1>3, <2>1, FS_EmptySet DEF Occurrences, Once
<1>. QED BY <1>2, <1>3

LEMMA OccurrencesAppend ==
  ASSUME NEW S, NEW line \in Seq(S), NEW word \in S, NEW words
  PROVE  Occurrences(Append(line, word), words)
           = Occurrences(line, words) + Once(word \in words)
<1>. DEFINE last == Len(line) + 1
            longer == Append(line, word)
            places == {i \in DOMAIN line : line[i] \in words}
<1>1. /\ DOMAIN line = 1..Len(line) /\ Len(line) \in Nat
      /\ DOMAIN longer = 1..last
      /\ \A i \in 1..Len(line) : longer[i] = line[i]
      /\ longer[last] = word
  BY AppendProperties, LenProperties
<1>2. last \notin places /\ 1..last = 1..Len(line) \cup {last}
  BY <1>1
<1>3. IsFiniteSet(places)
  BY PlacesFinite
<1>. HIDE DEF last, longer
<1>4. CASE word \in words
  <2>1. {i \in DOMAIN longer : longer[i] \in words} = places \cup {last}
    BY <1>1, <1>2, <1>4
  <2>. QED BY <1>2, <1>3, <1>4, <2>1, FS_AddElement DEF Occurrences, Once, longer
<1>5. CASE word \notin words
  <2>1. {i \in DOMAIN longer : longer[i] \in words} = places
    BY <1>1, <1>2, <1>5
  <2>2. Occurrences(line, words) \in Nat
    BY OccurrencesType
  <2>3. Occurrences(Append(line, word), words) = Occurrences(line, words)
    BY <2>1 DEF Occurrences, longer
  <2>. HIDE DEF places
  <2>. QED BY <1>5, <2>2, <2>3 DEF Once
<1>. QED BY <1>4, <1>5

LEMMA OccurrencesTail ==
  ASSUME NEW S, NEW line \in Seq(S), line # <<>>, NEW words
  PROVE  Occurrences(line, words)
           = Once(Head(line) \in words) + Occurrences(Tail(line), words)
<1>. DEFINE rest == Tail(line)
            places == {i \in DOMAIN line : line[i] \in words}
            later == {i \in DOMAIN rest : rest[i] \in words}
            shift == [i \in later |-> i + 1]
<1>1. /\ Len(line) \in Nat /\ Len(line) > 0
      /\ DOMAIN line = 1..Len(line)
      /\ DOMAIN rest = 1..(Len(line) - 1)
      /\ \A i \in 1..(Len(line) - 1) : rest[i] = line[i + 1]
      /\ rest \in Seq(S)
      /\ Head(line) = line[1]
  BY HeadTailProperties, LenProperties, EmptySeq
<1>2. IsFiniteSet(places) /\ IsFiniteSet(later)
  BY <1>1, PlacesFinite
<1>. HIDE DEF rest
<1>3. shift \in Bijection(later, places \ {1})
  <2>1. \A i \in later : shift[i] = i + 1 /\ i \in 1..(Len(line) - 1)
    BY <1>1
  <2>2. shift \in [later -> places \ {1}]
    BY <1>1, <2>1
  <2>3. \A i, j \in later : shift[i] = shift[j] => i = j
    BY <1>1, <2>1
  <2>4. ASSUME NEW j \in places \ {1} PROVE \E i \in later : shift[i] = j
    <3>1. j - 1 \in later /\ (j - 1) + 1 = j
      BY <1>1, <2>4
    <3>. QED BY <2>1, <3>1
  <2>. HIDE DEF shift, later, places
  <2>. QED BY <2>2, <2>3, <2>4 DEF Bijection, Injection, Surjection, IsInjective
<1>4. Cardinality(later) = Cardinality(places \ {1})
  BY <1>2, <1>3, FS_Bijection DEF ExistsBijection
<1>5. /\ Cardinality(later) \in Nat /\ Cardinality(places) \in Nat
      /\ Cardinality(places \ {1})
           = IF 1 \in places THEN Cardinality(places) - 1 ELSE Cardinality(places)
  BY <1>2, FS_RemoveElement, FS_CardinalityType
<1>6. 1 \in places <=> Head(line) \in words
  BY <1>1
<1>7. Occurrences(line, words) = Cardinality(places)
      /\ Occurrences(Tail(line), words) = Cardinality(later)
  BY DEF Occurrences, rest
<1>. HIDE DEF places, later
<1>. QED BY <1>4, <1>5, <1>6, <1>7 DEF Once

----------------------------------------------------------------------------
(* The objects on their way, place by place.                               *)

InReplies == Occurrences(fromArduino, {"ls"})
InBuffer == Occurrences(ard_buff, {"ls"})
InRequests == Occurrences(toRpi, Captures)
InAnswers == Occurrences(fromRpi, Answers)
InMessage == Once(rpi_buff \in Answers)
InSort == Once(curr_sort \in {"CAM_READY", "IMG_READY"})

PlacesAdd ==
  /\ InReplies \in Nat /\ InBuffer \in Nat /\ InRequests \in Nat
  /\ InAnswers \in Nat /\ InMessage \in 0..1 /\ InSort \in 0..1
  /\ OnTheWay = InReplies + InBuffer + InRequests + InAnswers + InMessage + InSort
  /\ OnTheWay \in Nat /\ Detected \in Int /\ Counted \in Nat

LEMMA PlacesType == TypeInv => PlacesAdd
<1>. SUFFICES ASSUME TypeInv PROVE PlacesAdd
  OBVIOUS
<1>1. /\ InReplies \in Nat /\ InBuffer \in Nat /\ InRequests \in Nat
      /\ InAnswers \in Nat
  BY OccurrencesType
     DEF InReplies, InBuffer, InRequests, InAnswers, TypeInv, TypeOK, LinksTypeOK,
         ControllerTypeOK
<1>2. InMessage \in 0..1 /\ InSort \in 0..1
  BY DEF InMessage, InSort, Once
<1>3. OnTheWay = InReplies + InBuffer + InRequests + InAnswers + InMessage + InSort
  BY DEF OnTheWay, InReplies, InBuffer, InRequests, InAnswers, InMessage, InSort
<1>4. Detected \in Int /\ Counted \in Nat
  <2>1. /\ count[1] \in Nat /\ count[2] \in Nat /\ count[3] \in Nat
        /\ count[4] \in Nat /\ left.objects \in Nat
    BY DEF TypeInv, TypeOK, ControllerTypeOK, Bin
  <2>. QED BY <2>1, SystemAssumption DEF Detected, Counted
<1>5. OnTheWay \in Nat
  BY <1>1, <1>2, <1>3
<1>. QED BY <1>1, <1>2, <1>3, <1>4, <1>5 DEF PlacesAdd

LEMMA PlacesTypeNext == TypeInv' => PlacesAdd'
BY PlacesType, PTL

(* A step that detects and counts nothing and lets no object reappear is   *)
(* a Lose of the ledger, or leaves it alone.                               *)
LEMMA Difference ==
  ASSUME NEW m \in Nat, NEW n \in Nat, n <= m
  PROVE  m - n \in 0..m /\ n = m - (m - n) /\ (n # m => m - n \in 1..m)
OBVIOUS

LEMMA NothingReappears ==
  ASSUME PlacesAdd, PlacesAdd', UNCHANGED <<Detected, Counted>>, OnTheWay' <= OnTheWay
  PROVE  [Ledger!Next]_(Ledger!ledgerVars)
<1>1. OnTheWay \in Nat /\ OnTheWay' \in Nat
  BY DEF PlacesAdd
<1>2. CASE OnTheWay' = OnTheWay
  BY <1>2 DEF Ledger!ledgerVars
<1>3. CASE OnTheWay' # OnTheWay
  <2>1. /\ OnTheWay - OnTheWay' \in 1..OnTheWay
        /\ OnTheWay' = OnTheWay - (OnTheWay - OnTheWay')
    BY <1>1, <1>3, Difference
  <2>. QED BY <2>1 DEF Ledger!Next, Ledger!Lose
<1>. QED BY <1>2, <1>3

----------------------------------------------------------------------------
(* What the steps do to each place.                                        *)

(* Messages that ask for no image move no object.                          *)
LEMMA OtherMessages ==
  ASSUME toRpi \in Seq(UplinkMsg), NEW cycle \in Nat,
         \/ UNCHANGED toRpi
         \/ SendRpi(InitMsg)
         \/ SendRpi(DoneMsg(cycle))
  PROVE  InRequests' = InRequests
<1>1. Once(InitMsg \in Captures) = 0 /\ Once(DoneMsg(cycle) \in Captures) = 0
  BY DEF Once, InitMsg, DoneMsg, Captures
<1>2. InRequests \in Nat
  BY OccurrencesType DEF InRequests
<1>3. ASSUME NEW msg \in {InitMsg, DoneMsg(cycle)}, SendRpi(msg)
      PROVE  InRequests' = InRequests
  <2>1. Occurrences(Append(toRpi, msg), Captures)
          = Occurrences(toRpi, Captures) + Once(msg \in Captures)
    BY <1>3, UplinkType, OccurrencesAppend
  <2>. QED BY <1>1, <1>2, <1>3, <2>1 DEF SendRpi, InRequests
<1>4. CASE UNCHANGED toRpi
  BY <1>4 DEF InRequests
<1>. QED BY <1>3, <1>4

LEMMA RequestSent ==
  ASSUME toRpi \in Seq(UplinkMsg), SendRpi(CaptureMsg)
  PROVE  InRequests' = InRequests + 1
<1>1. Once(CaptureMsg \in Captures) = 1
  BY DEF Once, CaptureMsg, Captures
<1>2. Occurrences(Append(toRpi, CaptureMsg), Captures)
        = Occurrences(toRpi, Captures) + Once(CaptureMsg \in Captures)
  BY UplinkType, OccurrencesAppend
<1>. QED BY <1>1, <1>2 DEF SendRpi, InRequests

LEMMA PollMoves ==
  ASSUME TypeInv, PlacesAdd, PlacesAdd', Poll
  PROVE  OnTheWay' <= OnTheWay
<1>. USE DEF OnTheWay, InReplies, InBuffer, InRequests, InAnswers, InMessage, InSort
<1>1. InReplies' + InBuffer' + InSort' <= InReplies + InBuffer + InSort
  <2>1. CASE fromArduino = <<>>
    BY <2>1 DEF Poll, PollArduino, PlacesAdd
  <2>2. CASE fromArduino # <<>>
    <3>1. /\ fromArduino \in Seq(Reply) /\ ard_buff \in Seq(Reply)
          /\ Head(fromArduino) \in Reply
      BY <2>2, Reading DEF TypeInv, TypeOK, LinksTypeOK, ControllerTypeOK
    <3>2. InReplies = Once(Head(fromArduino) \in {"ls"}) + InReplies'
      BY <2>2, <3>1, OccurrencesTail DEF Poll, PollArduino
    <3>3. InBuffer' = InBuffer + Once(Head(fromArduino) \in {"ls"})
      BY <2>2, <3>1, OccurrencesAppend DEF Poll, PollArduino
    <3>4. InSort' = 0
      BY <2>2 DEF Poll, PollArduino, Once
    <3>5. Once(Head(fromArduino) \in {"ls"}) \in 0..1
      BY DEF Once
    <3>. QED BY <3>2, <3>3, <3>4, <3>5 DEF PlacesAdd
  <2>. QED BY <2>1, <2>2
<1>2. InAnswers' + InMessage' <= InAnswers + InMessage
  <2>1. CASE fromRpi = <<>>
    BY <2>1 DEF Poll, PollRpi, PlacesAdd
  <2>2. CASE fromRpi # <<>>
    <3>1. InAnswers = Once(Head(fromRpi) \in Answers) + InAnswers'
      BY <2>2, OccurrencesTail
         DEF Poll, PollRpi, TypeInv, TypeOK, LinksTypeOK
    <3>2. InMessage' = Once(Head(fromRpi) \in Answers)
      BY <2>2 DEF Poll, PollRpi
    <3>. QED BY <3>1, <3>2 DEF PlacesAdd
  <2>. QED BY <2>1, <2>2
<1>3. InRequests' = InRequests
  BY DEF Poll
<1>. QED BY <1>1, <1>2, <1>3 DEF PlacesAdd

LEMMA TouchMoves ==
  ASSUME TypeInv, PlacesAdd, PlacesAdd', TouchHandler
  PROVE  OnTheWay' <= OnTheWay
<1>. USE DEF OnTheWay, InReplies, InBuffer, InRequests, InAnswers, InMessage, InSort
<1>1. toRpi \in Seq(UplinkMsg) /\ cycle_id \in Nat
  BY DEF TypeInv, TypeOK, LinksTypeOK, ControllerTypeOK
<1>2. UNCHANGED toRpi \/ SendRpi(DoneMsg(cycle_id))
  BY DEF TouchHandler, TouchUnchanged, PressStop, PressAutoSort, PressSweep,
         PressPosition, PressNothing, Release, EnterIdle, EnterAutoSort, EnterSweep,
         EnterOverride
<1>3. InRequests' = InRequests
  BY <1>1, <1>2, OtherMessages
<1>4. UNCHANGED <<ard_buff, rpi_buff, fromArduino, fromRpi>>
  BY DEF TouchHandler, TouchUnchanged, PressStop, PressAutoSort, PressSweep,
         PressPosition, PressNothing, Release, HandleTouchscreen, inputVars, inputLines
<1>5. curr_sort' \in {curr_sort, "INIT"}
  BY DEF TouchHandler, TouchUnchanged, PressStop, PressAutoSort, PressSweep,
         PressPosition, PressNothing, Release, EnterIdle, EnterAutoSort, EnterSweep,
         EnterOverride
<1>6. InReplies' = InReplies /\ InBuffer' = InBuffer /\ InAnswers' = InAnswers
      /\ InMessage' = InMessage
  BY <1>4
<1>7. InSort' <= InSort
  BY <1>5 DEF Once
<1>. QED BY <1>3, <1>6, <1>7 DEF PlacesAdd

LEMMA RpiMoves ==
  ASSUME TypeInv, PlacesAdd, PlacesAdd', RpiHandler
  PROVE  OnTheWay' <= OnTheWay
<1>. USE DEF OnTheWay, InReplies, InBuffer, InRequests, InAnswers, InMessage, InSort
<1>1. toRpi \in Seq(UplinkMsg) /\ cycle_id \in Nat
      /\ rpi_buff \in DownlinkMsg \cup {NoMsg}
  BY DEF TypeInv, TypeOK, LinksTypeOK, ControllerTypeOK
<1>2. HandleRpi
  BY DEF RpiHandler, ReceiveCycleId, ReceiveRetry, ReceiveCategory, RemoteAutoSort,
         RemoteStop, RemotePosition
<1>3. UNCHANGED toRpi \/ SendRpi(DoneMsg(cycle_id))
  BY DEF RpiHandler, ReceiveCycleId, ReceiveRetry, ReceiveCategory, RemoteAutoSort,
         RemoteStop, RemotePosition, EnterIdle, EnterAutoSort, EnterOverride
<1>4. InRequests' = InRequests
  BY <1>1, <1>3, OtherMessages
<1>5. InReplies' = InReplies /\ InBuffer' = InBuffer /\ InAnswers' = InAnswers
  BY <1>2 DEF HandleRpi, inputLines
<1>6. InMessage' = 0
  BY <1>2 DEF HandleRpi, Once, NoMsg, Answers
<1>7. InMessage' + InSort' <= InMessage + InSort
  <2>1. CASE ReceiveRetry \/ ReceiveCategory
    <3>1. rpi_buff.type \in {"retry", "cat"}
      BY <2>1 DEF ReceiveRetry, ReceiveCategory, Received
    <3>2. rpi_buff \in Answers
      BY <1>1, <3>1 DEF DownlinkMsg, NoMsg, Answers, Bin, Remote
    <3>3. InMessage = 1
      BY <3>2 DEF Once
    <3>. QED BY <1>6, <3>3 DEF PlacesAdd
  <2>2. CASE ReceiveCycleId \/ RemoteAutoSort \/ RemoteStop \/ RemotePosition
    <3>1. curr_sort' \in {curr_sort, "INIT", "BEGIN_CYCLE"}
      BY <2>2 DEF ReceiveCycleId, RemoteAutoSort, RemoteStop, RemotePosition, EnterIdle,
                  EnterAutoSort, EnterOverride
    <3>2. InSort' <= InSort
      BY <3>1 DEF Once
    <3>. QED BY <1>6, <3>2 DEF PlacesAdd
  <2>. QED BY <2>1, <2>2 DEF RpiHandler
<1>. QED BY <1>4, <1>5, <1>7 DEF PlacesAdd

(* One step of the sort: an object leaves the place it is in, and only     *)
(* counting it takes it off the way.                                       *)
LEMMA SortMoves ==
  ASSUME TypeInv, PlacesAdd, PlacesAdd', AutoSort
  PROVE  /\ OnTheWay' <= OnTheWay
         /\ CountObject => OnTheWay' = OnTheWay - 1
<1>. USE DEF OnTheWay, InReplies, InBuffer, InRequests, InAnswers, InMessage, InSort
<1>1. toRpi \in Seq(UplinkMsg) /\ cycle_id \in Nat
  BY DEF TypeInv, TypeOK, LinksTypeOK, ControllerTypeOK
<1>2. UNCHANGED <<rpi_buff, fromArduino, fromRpi>>
  BY DEF AutoSort, InitializeAutosort, BeginCycle, ObjectReady, CycleTimedOut,
         ReplyNotUnderstood, CaptureImage, CountObject, HandleArduino, SortStep,
         inputLines
<1>3. InReplies' = InReplies /\ InAnswers' = InAnswers /\ InMessage' = InMessage
  BY <1>2
<1>4. CASE InitializeAutosort \/ BeginCycle
  <2>1. InRequests' = InRequests
    BY <1>1, <1>4, OtherMessages DEF InitializeAutosort, BeginCycle
  <2>2. InBuffer' = InBuffer /\ InSort' = 0 /\ ~CountObject
    BY <1>4 DEF InitializeAutosort, BeginCycle, CountObject, SortStep, Once
  <2>. QED BY <1>3, <2>1, <2>2 DEF PlacesAdd
<1>5. CASE HandleArduino
  <2>1. InBuffer' = 0 /\ InSort = 0 /\ ~CountObject
    BY <1>5, OccurrencesEmpty DEF HandleArduino, CountObject, SortStep, Once
  <2>2. InRequests' = InRequests
    BY <1>1, <1>5, OtherMessages
       DEF AutoSort, InitializeAutosort, BeginCycle, ObjectReady, CycleTimedOut,
           ReplyNotUnderstood, CaptureImage, CountObject, HandleArduino, SortStep
  <2>3. CASE ObjectReady
    <3>1. InBuffer = 1
      BY <2>3, OccurrencesOne DEF ObjectReady, Once
    <3>. QED BY <1>3, <2>1, <2>2, <3>1 DEF PlacesAdd
  <2>4. CASE CycleTimedOut \/ ReplyNotUnderstood
    <3>1. InSort' = 0
      BY <2>4 DEF CycleTimedOut, ReplyNotUnderstood, Once
    <3>. QED BY <1>3, <2>1, <2>2, <3>1 DEF PlacesAdd
  <2>. QED
    BY <1>5, <2>3, <2>4 DEF AutoSort, InitializeAutosort, BeginCycle, CaptureImage,
                            CountObject, HandleArduino, SortStep
<1>6. CASE CaptureImage
  <2>1. InRequests' = InRequests + 1
    BY <1>1, <1>6, RequestSent DEF CaptureImage
  <2>2. InBuffer' = InBuffer /\ InSort = 1 /\ InSort' = 0 /\ ~CountObject
    BY <1>6 DEF CaptureImage, CountObject, SortStep, Once
  <2>. QED BY <1>3, <2>1, <2>2 DEF PlacesAdd
<1>7. CASE CountObject
  <2>1. InRequests' = InRequests /\ InBuffer' = InBuffer /\ InSort = 1 /\ InSort' = 0
    BY <1>7 DEF CountObject, SortStep, Once
  <2>. QED BY <1>3, <2>1 DEF PlacesAdd
<1>. QED
  BY <1>4, <1>5, <1>6, <1>7 DEF AutoSort, ObjectReady, CycleTimedOut, ReplyNotUnderstood

----------------------------------------------------------------------------
(* The tallies: who counts, who starts the counts again, who detects.      *)

LEMMA TallyUnchanged ==
  ASSUME UNCHANGED <<count, left>> \/ (UNCHANGED count /\ left'.objects = left.objects)
  PROVE  UNCHANGED <<Detected, Counted>>
BY DEF Detected, Counted

LEMMA CountsAgain ==
  ASSUME PlacesAdd, PlacesAdd', EnterAutoSort, UNCHANGED left, OnTheWay' <= OnTheWay
  PROVE  Ledger!NewSession
<1>1. Counted' = 0 /\ UNCHANGED Detected
  BY DEF EnterAutoSort, NoCount, Bin, Counted, Detected
<1>2. OnTheWay \in Nat /\ OnTheWay' \in Nat
  BY DEF PlacesAdd
<1>3. OnTheWay - OnTheWay' \in 0..OnTheWay
      /\ OnTheWay' = OnTheWay - (OnTheWay - OnTheWay')
  BY <1>2, Difference
<1>. QED BY <1>1, <1>3 DEF Ledger!NewSession

LEMMA CountsOne ==
  ASSUME TypeInv, TypeInv', PlacesAdd, PlacesAdd', CountObject, UNCHANGED left,
         OnTheWay' = OnTheWay - 1
  PROVE  Ledger!Count
<1>1. category_scanned \in Bin /\ count \in [Bin -> Nat]
  BY DEF CountObject, SortStep, TypeInv, CategoryKnown, TypeOK, ControllerTypeOK
<1>2. count' = [count EXCEPT ![category_scanned] = @ + 1]
  BY DEF CountObject
<1>3. Counted' = Counted + 1
  <2>1. category_scanned \in {1, 2, 3, 4} /\ Bin = {1, 2, 3, 4}
    BY <1>1 DEF Bin
  <2>. QED BY <1>1, <1>2, <2>1 DEF Counted
<1>4. OnTheWay > 0
  <2>1. OnTheWay \in Nat /\ OnTheWay' \in Nat
    BY DEF PlacesAdd
  <2>2. \A m, n \in Nat : n = m - 1 => m > 0
    OBVIOUS
  <2>. QED BY <2>1, <2>2
<1>5. UNCHANGED Detected
  BY DEF Detected
<1>. QED BY <1>3, <1>4, <1>5 DEF Ledger!Count

LEMMA ControllerLedger ==
  ASSUME TypeInv, TypeInv', PlacesAdd, PlacesAdd', ControllerNext, UNCHANGED envVars
  PROVE  [Ledger!Next]_(Ledger!ledgerVars)
<1>1. UNCHANGED left
  BY DEF envVars
<1>2. OnTheWay' <= OnTheWay
  BY PollMoves, TouchMoves, RpiMoves, SortMoves DEF ControllerNext
<1>3. CASE UNCHANGED count
  BY <1>1, <1>2, <1>3, TallyUnchanged, NothingReappears
<1>4. CASE PressAutoSort \/ RemoteAutoSort
  BY <1>1, <1>2, <1>4, CountsAgain DEF PressAutoSort, RemoteAutoSort, Ledger!Next
<1>5. CASE CountObject
  <2>1. OnTheWay' = OnTheWay - 1
    BY <1>5, SortMoves DEF AutoSort
  <2>. QED BY <1>1, <1>5, <2>1, CountsOne DEF Ledger!Next
<1>6. CASE Poll
  BY <1>3, <1>6 DEF Poll
<1>7. CASE TouchHandler
  BY <1>3, <1>4, <1>7
     DEF TouchHandler, TouchUnchanged, PressStop, PressSweep, PressPosition, PressNothing,
         Release, EnterIdle, EnterSweep, EnterOverride
<1>8. CASE RpiHandler
  BY <1>3, <1>4, <1>8
     DEF RpiHandler, ReceiveCycleId, ReceiveRetry, ReceiveCategory, RemoteStop,
         RemotePosition, EnterIdle, EnterOverride
<1>9. CASE AutoSort
  BY <1>3, <1>5, <1>9
     DEF AutoSort, InitializeAutosort, BeginCycle, ObjectReady, CycleTimedOut,
         ReplyNotUnderstood, CaptureImage, HandleArduino
<1>. QED BY <1>6, <1>7, <1>8, <1>9 DEF ControllerNext

LEMMA SpendOther ==
  ASSUME TypeInv, NEW what \in {"touches", "retries", "remote"}, Spend(what)
  PROVE  left'.objects = left.objects
BY DEF Spend, TypeInv, TypeOK

LEMMA ArduinoLedger ==
  ASSUME TypeInv, TypeInv', PlacesAdd, PlacesAdd', Arduino
  PROVE  [Ledger!Next]_(Ledger!ledgerVars)
<1>1. UNCHANGED <<toRpi, fromRpi, ard_buff, rpi_buff, curr_sort, count>>
  BY DEF Arduino, controllerVars
<1>2. fromArduino \in Seq(Reply) /\ "ls" \in Reply /\ "dn" \in Reply
  BY DEF TypeInv, TypeOK, LinksTypeOK, Reply
<1>3. InBuffer' = InBuffer /\ InRequests' = InRequests /\ InAnswers' = InAnswers
      /\ InMessage' = InMessage /\ InSort' = InSort
  BY <1>1 DEF InBuffer, InRequests, InAnswers, InMessage, InSort
<1>4. CASE LaserBroken /\ Spend("objects")
  <2>1. Occurrences(Append(fromArduino, "ls"), {"ls"}) = Occurrences(fromArduino, {"ls"}) + 1
    BY <1>2, OccurrencesAppend DEF Once
  <2>2. InReplies' = InReplies + 1
    BY <1>4, <2>1 DEF LaserBroken, InReplies
  <2>3. OnTheWay' = OnTheWay + 1
    BY <1>3, <2>2 DEF PlacesAdd, OnTheWay, InReplies, InBuffer, InRequests, InAnswers,
                      InMessage, InSort
  <2>4. Detected' = Detected + 1
    <3>1. left.objects \in Nat /\ left'.objects = left.objects - 1
      BY <1>4 DEF Spend, TypeInv, TypeOK
    <3>. QED BY <3>1, SystemAssumption DEF Detected
  <2>5. UNCHANGED Counted
    BY <1>1 DEF Counted
  <2>. QED BY <2>3, <2>4, <2>5 DEF Ledger!Next, Ledger!Detect
<1>5. CASE UNCHANGED left
  <2>1. UNCHANGED fromArduino \/ fromArduino' = Append(fromArduino, "dn")
    BY <1>4, <1>5
       DEF Arduino, RunLoop, ReadCommand, StartAutoSort, SetServoPosition, StartSweep,
           RunConveyor, CommandWithoutEffect, RunCommand, RunSweep, SweepMove, SweepEnd,
           SortTimeout, SortStopped, SortRead, Spend, LaserBroken, TypeInv, TypeOK
  <2>2. Occurrences(Append(fromArduino, "dn"), {"ls"}) = Occurrences(fromArduino, {"ls"}) + 0
    BY <1>2, OccurrencesAppend DEF Once
  <2>3. InReplies' = InReplies
    <3>1. Occurrences(fromArduino, {"ls"}) \in Nat
      BY <1>2, OccurrencesType
    <3>2. Occurrences(Append(fromArduino, "dn"), {"ls"}) = Occurrences(fromArduino, {"ls"})
      BY <2>2, <3>1
    <3>. QED BY <2>1, <3>2 DEF InReplies
  <2>4. OnTheWay' <= OnTheWay
    BY <1>3, <2>3 DEF PlacesAdd, OnTheWay, InReplies, InBuffer, InRequests, InAnswers,
                      InMessage, InSort
  <2>. QED BY <1>1, <1>5, <2>4, TallyUnchanged, NothingReappears
<1>. QED BY <1>4, <1>5 DEF Arduino

LEMMA EnvironmentLedger ==
  ASSUME TypeInv, TypeInv', PlacesAdd, PlacesAdd', Operator \/ Server \/ RemoteControl
  PROVE  [Ledger!Next]_(Ledger!ledgerVars)
<1>1. UNCHANGED <<fromArduino, ard_buff, rpi_buff, curr_sort, count>>
  BY DEF Operator, FingerUp, FingerDown, FingerDrag, SendPacket, Server, OpenSession,
         CloseSession, Classify, AskAgain, ServerStep, RemoteControl, controllerVars
<1>2. left'.objects = left.objects
  BY SpendOther
     DEF Operator, FingerUp, FingerDown, FingerDrag, Server, OpenSession, CloseSession,
         Classify, AskAgain, RemoteControl
<1>3. InReplies' = InReplies /\ InBuffer' = InBuffer /\ InMessage' = InMessage
      /\ InSort' = InSort
  BY <1>1 DEF InReplies, InBuffer, InMessage, InSort
<1>4. fromRpi \in Seq(DownlinkMsg) /\ toRpi \in Seq(UplinkMsg)
  BY DEF TypeInv, TypeOK, LinksTypeOK
<1>5. ASSUME NEW msg \in DownlinkMsg, fromRpi' = Append(fromRpi, msg)
      PROVE  InAnswers' = InAnswers + Once(msg \in Answers)
  BY <1>4, <1>5, OccurrencesAppend DEF InAnswers
<1>6. ASSUME NEW type, ServerStep(type)
      PROVE  InRequests = Once(Head(toRpi) \in Captures) + InRequests'
  BY <1>4, <1>6, OccurrencesTail DEF ServerStep, InRequests
<1>7. ASSUME NEW type, ServerStep(type)
      PROVE  /\ Head(toRpi) \in UplinkMsg
             /\ Head(toRpi) \in Captures <=> type = "capture"
  <2>1. \A msg \in UplinkMsg : msg \in Captures <=> msg.type = "capture"
    BY DEF UplinkMsg, Captures
  <2>2. Head(toRpi) \in UplinkMsg /\ Head(toRpi).type = type
    BY <1>4, <1>7, Reading DEF ServerStep
  <2>. QED BY <2>1, <2>2
<1>8. InRequests' + InAnswers' <= InRequests + InAnswers
  <2>. USE DEF InRequests, InAnswers
  <2>1. CASE Operator
    <3>1. InRequests' = InRequests /\ InAnswers' = InAnswers
      BY <2>1 DEF Operator, FingerUp, FingerDown, FingerDrag, SendPacket
    <3>. QED BY <3>1 DEF PlacesAdd
  <2>2. CASE OpenSession
    <3>1. [type |-> "cycle_id", val |-> lastCycle + 1] \in DownlinkMsg
          /\ [type |-> "cycle_id", val |-> lastCycle + 1] \notin Answers
      BY DEF DownlinkMsg, Answers, TypeInv, TypeOK
    <3>2. InAnswers' = InAnswers + 0
      BY <1>5, <2>2, <3>1 DEF OpenSession, Answer, Once
    <3>3. InRequests' = InRequests
      BY <1>6, <1>7, <2>2 DEF OpenSession, Once, PlacesAdd
    <3>. QED BY <3>2, <3>3 DEF PlacesAdd
  <2>3. CASE CloseSession
    <3>1. InRequests' = InRequests /\ InAnswers' = InAnswers
      BY <1>6, <1>7, <2>3 DEF CloseSession, Once, PlacesAdd
    <3>. QED BY <3>1 DEF PlacesAdd
  <2>4. CASE Classify \/ AskAgain
    <3>1. PICK msg \in DownlinkMsg : fromRpi' = Append(fromRpi, msg)
      BY <2>4, SystemAssumption DEF Classify, AskAgain, Answer, DownlinkMsg
    <3>2. InAnswers' = InAnswers + Once(msg \in Answers)
      BY <1>5, <3>1
    <3>3. InRequests = 1 + InRequests'
      BY <1>6, <1>7, <2>4 DEF Classify, AskAgain, Once, PlacesAdd
    <3>4. Once(msg \in Answers) \in 0..1
      BY DEF Once
    <3>. QED BY <3>2, <3>3, <3>4 DEF PlacesAdd
  <2>5. CASE RemoteControl
    <3>1. PICK msg \in RemoteCmds : fromRpi' = Append(fromRpi, msg)
      BY <2>5 DEF RemoteControl
    <3>2. msg \in DownlinkMsg /\ msg \notin Answers
      BY SystemAssumption DEF DownlinkMsg, Answers, Remote
    <3>3. InAnswers' = InAnswers + 0
      BY <1>5, <3>1, <3>2 DEF Once
    <3>4. InRequests' = InRequests
      BY <2>5 DEF RemoteControl
    <3>. QED BY <3>3, <3>4 DEF PlacesAdd
  <2>. QED BY <2>1, <2>2, <2>3, <2>4, <2>5 DEF Server
<1>9. OnTheWay' <= OnTheWay
  BY <1>3, <1>8 DEF PlacesAdd, OnTheWay, InReplies, InBuffer, InRequests, InAnswers,
                    InMessage, InSort
<1>. QED BY <1>1, <1>2, <1>9, TallyUnchanged, NothingReappears

LEMMA LedgerStep ==
  TypeInv /\ TypeInv' /\ [Next]_vars => [Ledger!Next]_(Ledger!ledgerVars)
<1>. SUFFICES ASSUME TypeInv, TypeInv', [Next]_vars
              PROVE  [Ledger!Next]_(Ledger!ledgerVars)
  OBVIOUS
<1>1. PlacesAdd /\ PlacesAdd'
  BY PlacesType, PlacesTypeNext
<1>2. CASE UNCHANGED vars
  BY <1>2 DEF vars, links, controllerVars, envVars, Ledger!ledgerVars, Detected, Counted,
              OnTheWay
<1>. QED
  BY <1>1, <1>2, ControllerLedger, ArduinoLedger, EnvironmentLedger DEF Next, Controls

LEMMA LedgerInit == Init => Ledger!Init
<1>. SUFFICES ASSUME Init PROVE Ledger!Init
  OBVIOUS
<1>1. Detected = 0
  BY SystemAssumption DEF Init, Detected
<1>2. Counted = 0
  BY DEF Init, ControllerInit, NoCount, Bin, Counted
<1>3. OnTheWay = 0
  BY OccurrencesEmpty
     DEF Init, LinksInit, ControllerInit, OnTheWay, Once, Answers, NoMsg
<1>. QED BY <1>1, <1>2, <1>3 DEF Ledger!Init

(* Whatever retries, late answers, stops and new sessions do, an object is *)
(* detected once, then under way, then counted once or lost: the line      *)
(* implements ObjectLedger.                                                *)
THEOREM LineKeepsLedger == Spec => ObjectsAccounted
<1>1. Spec => []TypeInv
  BY TypeInit, TypeStep, PTL DEF Spec
<1>. QED BY <1>1, LedgerInit, LedgerStep, PTL DEF Spec, ObjectsAccounted, Ledger!Spec

(* A move of the ledger, its numbers taken apart.                          *)
LedgerMove(s, p, c, s1, p1, c1) ==
  \/ s1 = s + 1 /\ p1 = p + 1 /\ c1 = c
  \/ s1 = s /\ p1 = p - 1 /\ c1 = c + 1
  \/ s1 = s /\ p1 <= p /\ c1 \in {c, 0}

LEMMA MoveKeepsSum ==
  ASSUME NEW s \in Int, NEW p \in Nat, NEW c \in Nat,
         NEW s1 \in Int, NEW p1 \in Nat, NEW c1 \in Nat,
         c + p <= s, LedgerMove(s, p, c, s1, p1, c1)
  PROVE  c1 + p1 <= s1
BY DEF LedgerMove

LEMMA Drop ==
  ASSUME NEW m \in Nat, NEW m1 \in Nat, NEW n \in 0..m, m1 = m - n
  PROVE  m1 <= m
OBVIOUS

(* No object is counted twice: the ledger keeps the sum of the counted and *)
(* the pending below the detected.                                         *)
THEOREM NoneCountedTwice == Spec => []NoObjectCountedTwice
<1>1. Spec => []PlacesAdd
  BY TypeInit, TypeStep, PlacesType, PTL DEF Spec
<1>2. Ledger!Init => NoObjectCountedTwice
  BY DEF Ledger!Init, NoObjectCountedTwice
<1>3. PlacesAdd /\ PlacesAdd' /\ NoObjectCountedTwice
        /\ [Ledger!Next]_(Ledger!ledgerVars) => NoObjectCountedTwice'
  <2>. SUFFICES ASSUME PlacesAdd, PlacesAdd', NoObjectCountedTwice,
                       [Ledger!Next]_(Ledger!ledgerVars)
                PROVE  NoObjectCountedTwice'
    OBVIOUS
  <2>1. /\ Detected \in Int /\ Counted \in Nat /\ OnTheWay \in Nat
        /\ Detected' \in Int /\ Counted' \in Nat /\ OnTheWay' \in Nat
        /\ Counted + OnTheWay <= Detected
    BY DEF PlacesAdd, NoObjectCountedTwice
  <2>2. ASSUME NEW n \in 0..OnTheWay, OnTheWay' = OnTheWay - n
        PROVE  OnTheWay' <= OnTheWay
    BY <2>1, <2>2, Drop
  <2>3. LedgerMove(Detected, OnTheWay, Counted, Detected', OnTheWay', Counted')
    <3>1. CASE Ledger!Detect
      BY <3>1 DEF Ledger!Detect, LedgerMove
    <3>2. CASE Ledger!Count
      BY <3>2 DEF Ledger!Count, LedgerMove
    <3>3. CASE Ledger!Lose
      <4>1. 1..OnTheWay \subseteq 0..OnTheWay
        OBVIOUS
      <4>. QED BY <2>2, <3>3, <4>1 DEF Ledger!Lose, LedgerMove
    <3>4. CASE Ledger!NewSession
      BY <2>2, <3>4 DEF Ledger!NewSession, LedgerMove
    <3>5. CASE UNCHANGED Ledger!ledgerVars
      <4>1. OnTheWay <= OnTheWay
        BY <2>1
      <4>. QED BY <3>5, <4>1 DEF Ledger!ledgerVars, LedgerMove
    <3>. QED BY <3>1, <3>2, <3>3, <3>4, <3>5 DEF Ledger!Next
  <2>. QED BY <2>1, <2>3, MoveKeepsSum DEF NoObjectCountedTwice
<1>. QED
  BY <1>1, <1>2, <1>3, LineKeepsLedger, PTL DEF ObjectsAccounted, Ledger!Spec

=============================================================================
