----------------------------- MODULE ShutdownProofs -----------------------------
(***************************************************************************)
(* What holds of a game's end, and of its consoles, however many machines  *)
(* and consoles there are.  The consoles' part depends only on their       *)
(* threads; the registry's on what removes machines; the loop of the       *)
(* destructor on both, by an invariant that tells where its iterator is.   *)
(***************************************************************************)
EXTENDS Shutdown, DataLemmas, FiniteSetTheorems

-------------------------------------------------------------------------------
(* The consoles.                                                           *)

HasNumber(k) == conPc[k] \in {"constructs", "pushes", "pushing", "welcomes", "done"}

(* Unless two threads have met, each works on the latest value.            *)
Apart ==
    /\ \A j, k \in Console :
          /\ conPc[j] = "numbers" /\ conPc[k] = "numbers" => j = k
          /\ conPc[j] = "pushing" /\ conPc[k] = "pushing" => j = k
          /\ HasNumber(j) /\ HasNumber(k) /\ mID[j] = mID[k] => j = k
    /\ \A k \in Console :
          /\ conPc[k] = "numbers" => mID[k] = mNextConsoleID
          /\ HasNumber(k) => mID[k] < mNextConsoleID
          /\ conPc[k] = "pushing" => seen[k] = Len(mConsoles)
          /\ Appended(k) => \E i \in 1 .. Len(mConsoles) : mConsoles[i] = k
    /\ \A i, j \in 1 .. Len(mConsoles) : mConsoles[i] = mConsoles[j] => i = j

ConsolesInv ==
    /\ \A i \in 1 .. Len(mConsoles) : Appended(mConsoles[i])
    /\ overlapped \/ Apart

(* A step of a console's thread, or of its client. *)
ConsoleStep ==
    \E k \in Console : HandleAcceptTcpCons(k) \/ ConsoleLeaves(k) \/ ServerThreadTcpReceiveCons(k)

LEMMA ConsoleTypes == ConsoleTypeOK /\ ConsoleStep => ConsoleTypeOK'
<1>. SUFFICES ASSUME ConsoleTypeOK, NEW k \in Console,
                     \/ HandleAcceptTcpCons(k) \/ ConsoleLeaves(k)
                     \/ ServerThreadTcpReceiveCons(k)
              PROVE  ConsoleTypeOK'
  BY DEF ConsoleStep
<1>1. CASE \/ HandleAcceptTcpCons(k) \/ ConsoleLeaves(k) \/ ReadsConsoleID(k)
           \/ WritesConsoleID(k) \/ Constructs(k) \/ Welcomes(k)
  <2>1. conPc' \in [Console -> {"away", "accepted", "numbers", "constructs", "pushes",
                                "pushing", "welcomes", "done"}]
    BY <1>1 DEF ConsoleTypeOK, HandleAcceptTcpCons, ConsoleLeaves, ReadsConsoleID,
       WritesConsoleID, Constructs, Welcomes, ConsoleGoes
  <2>2. mNextConsoleID' \in Nat /\ mID' \in [Console -> Nat]
    <3>1. CASE ReadsConsoleID(k)
      BY <3>1 DEF ConsoleTypeOK, ReadsConsoleID
    <3>2. CASE WritesConsoleID(k)
      BY <3>2 DEF ConsoleTypeOK, WritesConsoleID, NextConsoleID
    <3>3. CASE UNCHANGED <<mNextConsoleID, mID>>
      BY <3>3 DEF ConsoleTypeOK
    <3>. QED  BY <1>1, <3>1, <3>2, <3>3 DEF HandleAcceptTcpCons, ConsoleLeaves,
              Constructs, Welcomes
  <2>3. left' \subseteq Console
    BY <1>1 DEF ConsoleTypeOK, HandleAcceptTcpCons, ConsoleLeaves, ReadsConsoleID,
       WritesConsoleID, Constructs, Welcomes
  <2>5. overlapped' \in BOOLEAN
    <3>1. CASE overlapped' = (overlapped \/ Meets("numbers"))
      BY <3>1 DEF ConsoleTypeOK, Meets
    <3>2. CASE overlapped' = overlapped
      BY <3>2 DEF ConsoleTypeOK
    <3>. QED  BY <1>1, <3>1, <3>2 DEF HandleAcceptTcpCons, ConsoleLeaves, ReadsConsoleID,
              WritesConsoleID, Constructs, Welcomes
  <2>4. UNCHANGED <<mConsoles, seen>>
    BY <1>1 DEF HandleAcceptTcpCons, ConsoleLeaves, ReadsConsoleID, WritesConsoleID,
       Constructs, Welcomes
  <2>. QED  BY <2>1, <2>2, <2>3, <2>4, <2>5 DEF ConsoleTypeOK
<1>2. CASE ConstructorThrows(k) \/ PushBackFaults(k)
  BY <1>2 DEF ConsoleTypeOK, ConstructorThrows, PushBackFaults, consoleVars
<1>3. CASE PushBackSees(k)
  <2>1. Len(mConsoles) \in Nat
    BY LenProperties DEF ConsoleTypeOK
  <2>. QED  BY <1>3, <2>1 DEF ConsoleTypeOK, PushBackSees, ConsoleGoes, Meets
<1>4. CASE PushBackStores(k)
  <2>1. SubSeq(mConsoles, 1, seen[k]) \in Seq(Console)
    <3>1. Len(mConsoles) \in Nat /\ seen[k] \in Nat /\ seen[k] <= Len(mConsoles)
      BY <1>4, LenProperties DEF ConsoleTypeOK, PushBackStores
    <3>2. \A i \in 1 .. seen[k] : mConsoles[i] \in Console
      BY <3>1, ElementOfSeq DEF ConsoleTypeOK
    <3>. QED  BY <3>1, <3>2, SubSeqProperties
  <2>2. mConsoles' \in Seq(Console)
    BY <1>4, <2>1, AppendProperties DEF PushBackStores
  <2>. QED  BY <1>4, <2>2 DEF ConsoleTypeOK, PushBackStores, ConsoleGoes
<1>. QED  BY <1>1, <1>2, <1>3, <1>4 DEF ServerThreadTcpReceiveCons

(* What push_back stores: the elements it saw, and the console. *)
LEMMA Stored ==
  ASSUME ConsoleTypeOK, NEW k \in Console, PushBackStores(k)
  PROVE  /\ Len(mConsoles) \in Nat /\ seen[k] \in Nat /\ seen[k] <= Len(mConsoles)
         /\ Len(mConsoles') = seen[k] + 1
         /\ mConsoles'[seen[k] + 1] = k
         /\ \A i \in 1 .. seen[k] : mConsoles'[i] = mConsoles[i]
<1>1. Len(mConsoles) \in Nat /\ seen[k] \in Nat /\ seen[k] <= Len(mConsoles)
  BY LenProperties DEF ConsoleTypeOK, PushBackStores
<1>2. \A i \in 1 .. seen[k] : mConsoles[i] \in Console
  BY <1>1, ElementOfSeq DEF ConsoleTypeOK
<1>. DEFINE s == SubSeq(mConsoles, 1, seen[k])
<1>3. /\ s \in Seq(Console) /\ Len(s) = seen[k]
      /\ \A i \in 1 .. seen[k] : s[i] = mConsoles[i]
  <2>1. /\ s \in Seq(Console)
        /\ Len(s) = IF 1 <= seen[k] THEN seen[k] - 1 + 1 ELSE 0
        /\ \A i \in 1 .. seen[k] - 1 + 1 : s[i] = mConsoles[1 + i - 1]
    BY <1>1, <1>2, SubSeqProperties
  <2>. QED  BY <1>1, <2>1
<1>. HIDE DEF s
<1>4. mConsoles' = Append(s, k)
  BY DEF PushBackStores, s
<1>5. /\ Len(mConsoles') = Len(s) + 1 /\ mConsoles'[Len(s) + 1] = k
      /\ \A i \in 1 .. Len(s) : mConsoles'[i] = s[i]
  BY <1>3, <1>4, AppendProperties
<1>. QED  BY <1>1, <1>3, <1>5

LEMMA NextConsoles == ConsoleTypeOK /\ ConsolesInv /\ ConsoleStep => ConsolesInv'
<1>. SUFFICES ASSUME ConsoleTypeOK, ConsolesInv, NEW k \in Console,
                     \/ HandleAcceptTcpCons(k) \/ ConsoleLeaves(k)
                     \/ ServerThreadTcpReceiveCons(k)
              PROVE  ConsolesInv'
  BY DEF ConsoleStep
<1>0. \A i \in 1 .. Len(mConsoles) : mConsoles[i] \in Console /\ Appended(mConsoles[i])
  BY ElementOfSeq DEF ConsoleTypeOK, ConsolesInv
<1>1. CASE ConstructorThrows(k) \/ PushBackFaults(k) \/ ConsoleLeaves(k)
  <2>1. UNCHANGED <<conPc, mNextConsoleID, mID, mConsoles, seen, overlapped>>
    BY <1>1 DEF ConstructorThrows, PushBackFaults, ConsoleLeaves, consoleVars
  <2>. QED  BY <2>1 DEF ConsolesInv, Apart, Appended, HasNumber
<1>2. ASSUME NEW s, conPc' = [conPc EXCEPT ![k] = s], ~ Appended(k), mConsoles' = mConsoles
      PROVE  \A i \in 1 .. Len(mConsoles') : (Appended(mConsoles[i]))'
  BY <1>0, <1>2 DEF Appended, ConsoleTypeOK
<1>3. CASE HandleAcceptTcpCons(k)
  <2>1. (\A i \in 1 .. Len(mConsoles) : Appended(mConsoles[i]))'
    BY <1>2, <1>3 DEF HandleAcceptTcpCons, ConsoleGoes, Appended
  <2>2. Apart => Apart'
    BY <1>3 DEF HandleAcceptTcpCons, ConsoleGoes, Appended, Apart, HasNumber, ConsoleTypeOK
  <2>. QED  BY <1>3, <2>1, <2>2 DEF ConsolesInv, HandleAcceptTcpCons
<1>4. CASE ReadsConsoleID(k)
  <2>1. (\A i \in 1 .. Len(mConsoles) : Appended(mConsoles[i]))'
    BY <1>2, <1>4 DEF ReadsConsoleID, ConsoleGoes, Appended
  <2>2. Apart /\ ~ Meets("numbers") => Apart'
    BY <1>4 DEF ReadsConsoleID, ConsoleGoes, Appended, Apart, HasNumber, ConsoleTypeOK, Meets
  <2>. QED  BY <1>4, <2>1, <2>2 DEF ConsolesInv, ReadsConsoleID
<1>5. CASE WritesConsoleID(k)
  <2>1. (\A i \in 1 .. Len(mConsoles) : Appended(mConsoles[i]))'
    BY <1>2, <1>5 DEF WritesConsoleID, ConsoleGoes, Appended
  <2>2. Apart => Apart'
    <3>1. mID[k] \in Nat /\ \A j \in Console : mID[j] \in Nat
      BY DEF ConsoleTypeOK
    <3>. QED  BY <1>5, <3>1 DEF WritesConsoleID, ConsoleGoes, Appended, Apart, HasNumber,
              ConsoleTypeOK, NextConsoleID
  <2>. QED  BY <1>5, <2>1, <2>2 DEF ConsolesInv, WritesConsoleID
<1>6. CASE Constructs(k)
  <2>1. (\A i \in 1 .. Len(mConsoles) : Appended(mConsoles[i]))'
    BY <1>2, <1>6 DEF Constructs, ConsoleGoes, Appended
  <2>2. Apart => Apart'
    BY <1>6 DEF Constructs, ConsoleGoes, Appended, Apart, HasNumber, ConsoleTypeOK
  <2>. QED  BY <1>6, <2>1, <2>2 DEF ConsolesInv, Constructs
<1>7. CASE PushBackSees(k)
  <2>1. (\A i \in 1 .. Len(mConsoles) : Appended(mConsoles[i]))'
    BY <1>2, <1>7 DEF PushBackSees, ConsoleGoes, Appended
  <2>2. Apart /\ ~ Meets("pushing") => Apart'
    BY <1>7 DEF PushBackSees, ConsoleGoes, Appended, Apart, HasNumber, ConsoleTypeOK, Meets
  <2>. QED  BY <1>7, <2>1, <2>2 DEF ConsolesInv, PushBackSees
<1>8. CASE PushBackStores(k)
  <2>1. (\A i \in 1 .. Len(mConsoles) : Appended(mConsoles[i]))'
    <3>. SUFFICES ASSUME NEW i \in 1 .. Len(mConsoles')
                  PROVE  conPc'[mConsoles'[i]] \in {"welcomes", "done"}
      BY DEF Appended
    <3>1. CASE i = seen[k] + 1
      BY <1>8, <3>1, Stored DEF PushBackStores, ConsoleGoes, ConsoleTypeOK
    <3>2. CASE i # seen[k] + 1
      <4>1. i \in 1 .. seen[k] /\ i \in 1 .. Len(mConsoles)
        BY <1>8, <3>2, Stored
      <4>2. mConsoles'[i] = mConsoles[i]
        BY <1>8, <4>1, Stored
      <4>. QED  BY <1>0, <1>8, <4>1, <4>2 DEF PushBackStores, ConsoleGoes, ConsoleTypeOK, Appended
    <3>. QED  BY <3>1, <3>2
  <2>2. Apart => Apart'
    <3>. SUFFICES ASSUME Apart  PROVE Apart'
      OBVIOUS
    <3>0. /\ conPc \in [Console -> {"away", "accepted", "numbers", "constructs", "pushes",
                              "pushing", "welcomes", "done"}]
          /\ conPc[k] = "pushing" /\ conPc' = [conPc EXCEPT ![k] = "welcomes"]
          /\ seen' = [seen EXCEPT ![k] = 0] /\ mID' = mID /\ mNextConsoleID' = mNextConsoleID
      BY <1>8 DEF PushBackStores, ConsoleGoes, ConsoleTypeOK
    <3>1. seen[k] = Len(mConsoles)
      BY <3>0 DEF Apart
    <3>2. /\ Len(mConsoles) \in Nat
          /\ Len(mConsoles') = Len(mConsoles) + 1 /\ mConsoles'[Len(mConsoles) + 1] = k
          /\ \A i \in 1 .. Len(mConsoles) : mConsoles'[i] = mConsoles[i]
      BY <1>8, <3>1, Stored
    <3>3. \A i \in 1 .. Len(mConsoles) : mConsoles[i] # k
      BY <1>0, <3>0 DEF Appended
    <3>4. \A i, j \in 1 .. Len(mConsoles') : mConsoles'[i] = mConsoles'[j] => i = j
      <4>. SUFFICES ASSUME NEW i \in 1 .. Len(mConsoles'), NEW j \in 1 .. Len(mConsoles'),
                           mConsoles'[i] = mConsoles'[j]
                    PROVE  i = j
        OBVIOUS
      <4>1. i \in 1 .. Len(mConsoles) \/ i = Len(mConsoles) + 1
        BY <3>2
      <4>2. j \in 1 .. Len(mConsoles) \/ j = Len(mConsoles) + 1
        BY <3>2
      <4>. QED  BY <3>2, <3>3, <4>1, <4>2 DEF Apart
    <3>5. ASSUME NEW j \in Console, Appended(j)'
          PROVE  \E i \in 1 .. Len(mConsoles') : mConsoles'[i] = j
      <4>1. CASE j = k
        BY <3>2, <4>1
      <4>2. CASE j # k
        <5>1. Appended(j)
          BY <3>0, <3>5, <4>2 DEF Appended
        <5>2. PICK i \in 1 .. Len(mConsoles) : mConsoles[i] = j
          BY <5>1 DEF Apart
        <5>. QED  BY <3>2, <5>2
      <4>. QED  BY <4>1, <4>2
    <3>6. \A j \in Console : conPc'[j] # "pushing"
      BY <3>0 DEF Apart
    <3>7. \A j \in Console : HasNumber(j)' <=> HasNumber(j)
      BY <3>0 DEF HasNumber
    <3>8. \A j \in Console : conPc'[j] = "numbers" <=> conPc[j] = "numbers"
      BY <3>0
    <3>. QED  BY <3>0, <3>4, <3>5, <3>6, <3>7, <3>8 DEF Apart
  <2>. QED  BY <1>8, <2>1, <2>2 DEF ConsolesInv, PushBackStores
<1>9. CASE Welcomes(k)
  <2>0. conPc[k] = "welcomes" /\ conPc' = [conPc EXCEPT ![k] = "done"] /\ mConsoles' = mConsoles
    BY <1>9 DEF Welcomes, ConsoleGoes
  <2>1. (\A i \in 1 .. Len(mConsoles) : Appended(mConsoles[i]))'
    BY <1>0, <2>0 DEF Appended, ConsoleTypeOK
  <2>2. Apart => Apart'
    <3>1. UNCHANGED <<mConsoles, seen, mID, mNextConsoleID>>
      BY <1>9 DEF Welcomes, ConsoleGoes
    <3>2. \A j \in Console : conPc'[j] = IF j = k THEN "done" ELSE conPc[j]
      BY <2>0 DEF ConsoleTypeOK
    <3>. SUFFICES ASSUME Apart  PROVE Apart'
      OBVIOUS
    <3>3. \A j \in Console : conPc'[j] = conPc[j] \/ (conPc[j] = "welcomes" /\ conPc'[j] = "done")
      BY <2>0, <3>2
    <3>6. ASSUME NEW j \in Console, NEW l \in Console
          PROVE  /\ conPc'[j] = "numbers" /\ conPc'[l] = "numbers" => j = l
                 /\ conPc'[j] = "pushing" /\ conPc'[l] = "pushing" => j = l
                 /\ HasNumber(j)' /\ HasNumber(l)' /\ mID'[j] = mID'[l] => j = l
      BY <3>1, <3>3 DEF Apart, HasNumber
    <3>7. ASSUME NEW j \in Console
          PROVE  /\ conPc'[j] = "numbers" => mID'[j] = mNextConsoleID'
                 /\ HasNumber(j)' => mID'[j] < mNextConsoleID'
                 /\ conPc'[j] = "pushing" => seen'[j] = Len(mConsoles')
                 /\ Appended(j)' => \E i \in 1 .. Len(mConsoles') : mConsoles'[i] = j
      BY <3>1, <3>3 DEF Apart, HasNumber, Appended
    <3>8. \A i, j \in 1 .. Len(mConsoles') : mConsoles'[i] = mConsoles'[j] => i = j
      BY <3>1 DEF Apart
    <3>. QED  BY <3>6, <3>7, <3>8 DEF Apart
  <2>. QED  BY <1>9, <2>1, <2>2 DEF ConsolesInv, Welcomes
<1>. QED  BY <1>1, <1>3, <1>4, <1>5, <1>6, <1>7, <1>8, <1>9 DEF ServerThreadTcpReceiveCons

-------------------------------------------------------------------------------
(* The registry.                                                           *)

Ever == 1 .. accepted

RegistryInv ==
    /\ size <= accepted
    /\ \A i \in 1 .. size : mem[i] \in Ever
    /\ \A i, j \in 1 .. size : mem[i] = mem[j] => i = j
    /\ size = Cardinality(Registered)
    /\ mDeleting = Ever \ Registered
    /\ \A i \in 1 .. Len(dbQueue) : dbQueue[i] \in mDeleting
    /\ \A m \in mDeleting : \E i \in 1 .. Len(dbQueue) : dbQueue[i] = m
    /\ Len(dbQueue) = Cardinality(mDeleting)

LEMMA Finite ==
  ASSUME TypeOK
  PROVE  /\ IsFiniteSet(Machine) /\ IsFiniteSet(Ever) /\ Ever \subseteq Machine
         /\ IsFiniteSet(mDeleting) /\ IsFiniteSet(freed) /\ IsFiniteSet(start)
         /\ IsFiniteSet(told)
<1>1. MaxMachine \in Nat /\ accepted \in 0 .. MaxMachine
  BY ShutdownAssumption DEF TypeOK
<1>2. IsFiniteSet(Machine) /\ Ever \subseteq Machine
  BY <1>1, FS_Interval DEF Machine, Ever
<1>. QED  BY <1>2, FS_Subset DEF TypeOK

LEMMA RegisteredFacts ==
  ASSUME TypeOK, RegistryInv
  PROVE  /\ Registered \subseteq Ever /\ IsFiniteSet(Registered)
         /\ size \in Nat /\ accepted \in Nat
<1>1. Registered \subseteq Ever
  BY DEF RegistryInv, Registered
<1>. QED  BY <1>1, Finite, FS_Subset, ShutdownAssumption DEF TypeOK

(* Erasing a registered machine takes it from the vector and reports it.   *)
Erased(m, i) ==
    /\ i \in 1 .. size
    /\ mem[i] = m
    /\ \A j \in Place : mem'[j] = IF i <= j /\ j < size THEN mem[j + 1] ELSE mem[j]
    /\ size' = size - 1
    /\ mDeleting' = mDeleting \cup {m}
    /\ dbQueue' = Append(dbQueue, m)

LEMMA Removal ==
  ASSUME TypeOK, RegistryInv, NEW m \in Machine, RemoveMachine(m), accepted' = accepted
  PROVE  /\ mem' \in [Place -> Machine \cup {Unwritten}] /\ size' \in 0 .. MaxMachine
         /\ mDeleting' \subseteq Machine /\ dbQueue' \in Seq(Machine)
         /\ RegistryInv'
         /\ \/ m \notin Registered /\ UNCHANGED registry
            \/ /\ m \in Registered
               /\ Registered' = Registered \ {m}
               /\ \E i \in 1 .. size : Erased(m, i)
<1>0. /\ size \in Nat /\ accepted \in Nat /\ size <= accepted /\ accepted <= MaxMachine
      /\ MaxMachine \in Nat
  BY RegisteredFacts, ShutdownAssumption DEF TypeOK, RegistryInv
<1>1. CASE m \notin Registered
  <2>1. UNCHANGED registry
    BY <1>1 DEF RemoveMachine
  <2>2. RegistryInv'
    <3>1. Registered' = Registered /\ Ever' = Ever
      BY <2>1 DEF registry, Registered, Ever
    <3>. QED  BY <2>1, <3>1 DEF RegistryInv, registry
  <2>. QED  BY <1>1, <2>1, <2>2 DEF registry, TypeOK
<1>2. CASE m \in Registered
  <2>0. m \notin mDeleting
    BY <1>2 DEF RegistryInv
  <2>1. PICK i \in 1 .. size :
           /\ mem[i] = m
           /\ mem' = [j \in Place |-> IF i <= j /\ j < size THEN mem[j + 1] ELSE mem[j]]
    BY <1>2, <2>0 DEF RemoveMachine
  <2>2. /\ size' = size - 1 /\ mDeleting' = mDeleting \cup {m}
        /\ dbQueue' = Append(dbQueue, m)
    BY <1>2, <2>0 DEF RemoveMachine, Reported
  <2>3. /\ \A j \in Place : mem'[j] = IF i <= j /\ j < size THEN mem[j + 1] ELSE mem[j]
        /\ 1 .. size \subseteq Place
    BY <1>0, <2>1 DEF Place
  <2>4. mem' \in [Place -> Machine \cup {Unwritten}]
    <3>1. \A j \in Place : mem[j] \in Machine \cup {Unwritten}
      BY DEF TypeOK
    <3>2. \A j \in Place : j < size => j + 1 \in Place
      BY <1>0 DEF Place
    <3>. QED  BY <2>1, <3>1, <3>2
  <2>5. size' \in 0 .. MaxMachine /\ mDeleting' \subseteq Machine
    BY <1>0, <2>1, <2>2 DEF TypeOK
  <2>6. /\ dbQueue' \in Seq(Machine) /\ Len(dbQueue) \in Nat
        /\ Len(dbQueue') = Len(dbQueue) + 1
        /\ \A j \in 1 .. Len(dbQueue) : dbQueue'[j] = dbQueue[j]
        /\ dbQueue'[Len(dbQueue) + 1] = m
    BY <2>2, AppendProperties, LenProperties DEF TypeOK
  <2>7. ASSUME NEW j \in 1 .. size'
        PROVE  /\ j \in Place /\ j \in 1 .. size /\ j + 1 \in 1 .. size
               /\ mem'[j] = mem[IF j < i THEN j ELSE j + 1]
    BY <1>0, <2>1, <2>2, <2>3 DEF Place
  <2>8. Registered' = Registered \ {m}
    <3>1. ASSUME NEW j \in 1 .. size' PROVE mem'[j] \in Registered \ {m}
      <4>1. PICK k \in 1 .. size : k # i /\ mem'[j] = mem[k]
        <5>1. CASE j < i
          BY <2>7, <5>1
        <5>2. CASE ~ (j < i)
          <6>1. j + 1 # i
            BY <1>0, <2>1, <2>2, <5>2
          <6>. QED  BY <2>7, <5>2, <6>1
        <5>. QED  BY <5>1, <5>2
      <4>2. mem[k] # m
        BY <2>1, <4>1 DEF RegistryInv
      <4>. QED  BY <4>1, <4>2 DEF Registered
    <3>2. ASSUME NEW j \in 1 .. size, mem[j] # m PROVE mem[j] \in Registered'
      <4>1. CASE j < i
        BY <1>0, <2>1, <2>2, <2>7, <4>1 DEF Registered
      <4>2. CASE j > i
        <5>1. j - 1 \in 1 .. size' /\ ~ (j - 1 < i) /\ (j - 1) + 1 = j
          BY <1>0, <2>1, <2>2, <4>2
        <5>2. mem'[j - 1] = mem[j]
          BY <2>7, <5>1
        <5>. QED  BY <5>1, <5>2 DEF Registered
      <4>3. j # i
        BY <2>1, <3>2
      <4>. QED  BY <1>0, <2>1, <4>1, <4>2, <4>3
    <3>. QED  BY <3>1, <3>2 DEF Registered
  <2>9. RegistryInv'
    <3>1. \A j \in 1 .. size' : mem'[j] \in Ever
      BY <2>7 DEF RegistryInv
    <3>2. \A j, k \in 1 .. size' : mem'[j] = mem'[k] => j = k
      <4>. SUFFICES ASSUME NEW j \in 1 .. size', NEW k \in 1 .. size', mem'[j] = mem'[k]
                    PROVE  j = k
        OBVIOUS
      <4>. DEFINE f(l) == IF l < i THEN l ELSE l + 1
      <4>1. f(j) \in 1 .. size /\ f(k) \in 1 .. size
        BY <2>7
      <4>2. mem[f(j)] = mem[f(k)]
        BY <2>7
      <4>3. f(j) = f(k)
        <5>. HIDE DEF f
        <5>. QED  BY <4>1, <4>2 DEF RegistryInv
      <4>. QED  BY <1>0, <2>2, <4>3
    <3>3. size' = Cardinality(Registered)'
      BY <1>2, <2>2, <2>8, RegisteredFacts, FS_RemoveElement DEF RegistryInv
    <3>4. mDeleting' = Ever \ Registered'
      BY <1>2, <2>2, <2>8, RegisteredFacts DEF RegistryInv
    <3>5. \A j \in 1 .. Len(dbQueue') : dbQueue'[j] \in mDeleting'
      <4>1. \A j \in 1 .. Len(dbQueue) : dbQueue[j] \in mDeleting
        BY DEF RegistryInv
      <4>2. \A j \in 1 .. Len(dbQueue') : j \in 1 .. Len(dbQueue) \/ j = Len(dbQueue) + 1
        BY <2>6
      <4>. QED  BY <2>2, <2>6, <4>1, <4>2
    <3>8. ASSUME NEW x \in mDeleting' PROVE \E j \in 1 .. Len(dbQueue') : dbQueue'[j] = x
      <4>1. CASE x = m
        BY <2>6, <4>1
      <4>2. CASE x \in mDeleting
        <5>1. PICK j \in 1 .. Len(dbQueue) : dbQueue[j] = x
          BY <4>2 DEF RegistryInv
        <5>. QED  BY <2>6, <5>1
      <4>. QED  BY <2>2, <4>1, <4>2
    <3>6. Len(dbQueue') = Cardinality(mDeleting')
      <4>1. Cardinality(mDeleting') = Cardinality(mDeleting) + 1
        BY <2>0, <2>2, Finite, FS_AddElement
      <4>. QED  BY <2>6, <4>1 DEF RegistryInv
    <3>7. size' <= accepted
      BY <1>0, <2>2
    <3>. QED  BY <3>1, <3>2, <3>3, <3>4, <3>5, <3>6, <3>7, <3>8 DEF RegistryInv, Ever
  <2>. QED  BY <1>2, <2>1, <2>2, <2>3, <2>4, <2>5, <2>6, <2>8, <2>9 DEF Erased
<1>. QED  BY <1>1, <1>2

LEMMA Acceptance ==
  ASSUME TypeOK, RegistryInv, AcceptAuth
  PROVE  /\ mem' \in [Place -> Machine \cup {Unwritten}] /\ size' \in 0 .. MaxMachine
         /\ accepted' \in 0 .. MaxMachine
         /\ RegistryInv'
<1>. DEFINE n == accepted + 1
<1>0. /\ size \in Nat /\ accepted \in Nat /\ size <= accepted /\ accepted < MaxMachine
      /\ MaxMachine \in Nat
  BY RegisteredFacts, ShutdownAssumption DEF RegistryInv, AcceptAuth
<1>1. /\ mem' = [mem EXCEPT ![size + 1] = n] /\ size' = size + 1 /\ accepted' = n
      /\ UNCHANGED <<mDeleting, dbQueue>>
  BY DEF AcceptAuth
<1>2. size + 1 \in Place /\ n \in Machine /\ 1 .. size \subseteq Place
  BY <1>0 DEF Place, Machine
<1>3. mem' \in [Place -> Machine \cup {Unwritten}]
  BY <1>1, <1>2 DEF TypeOK
<1>4. /\ mem'[size + 1] = n
      /\ \A j \in 1 .. size : mem'[j] = mem[j]
  BY <1>0, <1>1, <1>2 DEF TypeOK
<1>5. Registered' = Registered \cup {n}
  <2>1. 1 .. size' = (1 .. size) \cup {size + 1}
    BY <1>0, <1>1
  <2>. QED  BY <1>4, <2>1 DEF Registered
<1>6. n \notin Registered /\ Ever' = Ever \cup {n} /\ n \notin Ever
  BY <1>0, <1>1, RegisteredFacts DEF Ever
<1>7. \A j, k \in 1 .. size' : mem'[j] = mem'[k] => j = k
  <2>1. \A j \in 1 .. size : mem[j] # n
    BY <1>6 DEF Registered
  <2>2. \A j \in 1 .. size' : j \in 1 .. size \/ j = size + 1
    BY <1>0, <1>1
  <2>. QED  BY <1>4, <2>1, <2>2 DEF RegistryInv
<1>8. \A j \in 1 .. size' : mem'[j] \in Ever'
  <2>2. \A j \in 1 .. size' : j \in 1 .. size \/ j = size + 1
    BY <1>0, <1>1
  <2>. QED  BY <1>4, <1>6, <2>2 DEF RegistryInv
<1>9. size' = Cardinality(Registered')
  BY <1>1, <1>5, <1>6, RegisteredFacts, FS_AddElement DEF RegistryInv
<1>10. mDeleting' = Ever' \ Registered'
  BY <1>1, <1>5, <1>6 DEF RegistryInv
<1>. HIDE DEF n
<1>11. RegistryInv'
  <2>1. size' <= accepted'
    BY <1>0, <1>1 DEF n
  <2>2. UNCHANGED <<mDeleting, dbQueue>>
    BY <1>1
  <2>. QED  BY <1>7, <1>8, <1>9, <1>10, <2>1, <2>2 DEF RegistryInv
<1>. QED  BY <1>0, <1>1, <1>3, <1>11 DEF n
-------------------------------------------------------------------------------
(* Which steps change what.                                                *)

(* The threads beside the engine's. *)
Background ==
    \/ \E k \in Console : ConsoleThread(k) \/ ConsoleClientLeaves(k)
    \/ IoAccepts \/ IoReadsForMachine \/ IoAbortsForConsole \/ IoReturns
    \/ LoginAsks \/ LoginsMeet

(* The engine's, and the destroying one. *)
Engine ==
    \/ AttachEngines \/ AcceptAuth \/ AcceptAuthThrows \/ HandlerFails \/ Destroy
    \/ \E m \in Machine : SendFails(m)
    \/ Destructor

LEMMA NextSplits == Next <=> Defined /\ (Background \/ Engine)
BY DEF Next, Others, Background, Engine

LEMMA BackgroundKeeps ==
  ASSUME Background
  PROVE  UNCHANGED <<phase, engines, registry, it, deleted, histories>>
<1>1. ASSUME NEW k \in Console, ConsoleThread(k)
      PROVE  UNCHANGED <<phase, engines, registry, it, deleted, histories>>
  BY <1>1 DEF ConsoleThread, Faults
<1>2. ASSUME NEW k \in Console, ConsoleClientLeaves(k)
      PROVE  UNCHANGED <<phase, engines, registry, it, deleted, histories>>
  BY <1>2 DEF ConsoleClientLeaves
<1>3. CASE IoAccepts
  BY <1>3 DEF IoAccepts, Faults
<1>4. CASE IoReadsForMachine \/ IoAbortsForConsole
  BY <1>4 DEF IoReadsForMachine, IoAbortsForConsole, Faults
<1>5. CASE IoReturns
  BY <1>5 DEF IoReturns
<1>6. CASE LoginAsks \/ LoginsMeet
  BY <1>6 DEF LoginAsks, LoginsMeet, Faults
<1>. QED  BY <1>1, <1>2, <1>3, <1>4, <1>5, <1>6 DEF Background

LEMMA EngineKeeps == Engine => UNCHANGED consoleVars
BY DEF Engine, AttachEngines, AcceptAuth, AcceptAuthThrows, HandlerFails, Destroy, SendFails,
   Destructor, DeleteEngine, DisconnectConsole, ConsolesDone, Disconnect, DisconnectWaits,
   Delete, IteratorFaults, DeleteSockets, StopIO, ConnexionsClosed, Faults

LEMMA ConsolesMove == [Next]_vars => ConsoleStep \/ UNCHANGED consoleVars
<1>. SUFFICES ASSUME [Next]_vars PROVE ConsoleStep \/ UNCHANGED consoleVars
  OBVIOUS
<1>1. CASE UNCHANGED vars
  BY <1>1 DEF vars
<1>2. CASE Engine
  BY <1>2, EngineKeeps
<1>3. CASE Background
  <2>1. ASSUME NEW k \in Console, ConsoleThread(k) \/ ConsoleClientLeaves(k)
        PROVE  ConsoleStep \/ UNCHANGED consoleVars
    BY <2>1 DEF ConsoleThread, ConsoleClientLeaves, ConsoleStep, Faults
  <2>2. CASE IoAccepts
    BY <2>2 DEF IoAccepts, ConsoleStep, Faults
  <2>3. CASE \/ IoReadsForMachine \/ IoAbortsForConsole \/ IoReturns \/ LoginAsks
             \/ LoginsMeet
    BY <2>3 DEF IoReadsForMachine, IoAbortsForConsole, IoReturns, LoginAsks, LoginsMeet, Faults
  <2>. QED  BY <1>3, <2>1, <2>2, <2>3 DEF Background
<1>. QED  BY <1>1, <1>2, <1>3, NextSplits

LEMMA NextConsolesInv ==
  ASSUME ConsoleTypeOK, ConsolesInv, [Next]_vars
  PROVE  ConsoleTypeOK' /\ ConsolesInv'
<1>1. CASE ConsoleStep
  BY <1>1, ConsoleTypes, NextConsoles
<1>2. CASE UNCHANGED consoleVars
  <2>1. UNCHANGED <<conPc, mNextConsoleID, mID, mConsoles, seen, left, overlapped>>
    BY <1>2 DEF consoleVars
  <2>. QED  BY <2>1 DEF ConsoleTypeOK, ConsolesInv, Apart, Appended, HasNumber
<1>. QED  BY <1>1, <1>2, ConsolesMove

-------------------------------------------------------------------------------
(* The destructor's loop.                                                  *)

Odd(S) == Cardinality(S) % 2 = 1

(* The iterator has deleted every machine before it, and as many or one    *)
(* more were taken out from under it.                                      *)
Halfway(t) ==
    /\ freed = {mem[i] : i \in 1 .. it - 1}
    /\ told = start \ Registered
    /\ Registered \subseteq start
    /\ Cardinality(told) = t
    /\ Cardinality(freed) = it - 1
    /\ size + t = Cardinality(start)
    /\ it <= size + 1

(* It has passed the end without noticing. *)
Astray == Odd(start) /\ it > size + 1

Halves ==
    /\ told \cap freed = {}
    /\ told \cup freed = start
    /\ Cardinality(told) = Cardinality(freed)
    /\ freed = Registered

LoopInv ==
    /\ engines \in {DeletionOrder, <<"schedule", "database">>, <<"database">>, <<>>}
    /\ engines # DeletionOrder => phase = "game" /\ Halves
    /\ engines = DeletionOrder =>
         /\ phase \in {"construct", "run", "game", "consoles"} => freed = {} /\ told = {}
         /\ phase \in {"game", "consoles"} => start = Registered
         /\ phase = "disconnect" => Halfway(it - 1) \/ Astray
         /\ phase = "delete" => Halfway(it) \/ Astray
         /\ phase \in {"stop", "stopped"} => Halfway(it - 1) /\ it = size + 1

LoopVars == <<phase, engines, mem, size, it, freed, told, start>>

LEMMA LoopStutters == LoopInv /\ UNCHANGED LoopVars => LoopInv'
<1>. SUFFICES ASSUME LoopInv, UNCHANGED LoopVars PROVE LoopInv'
  OBVIOUS
<1>1. Registered' = Registered
  BY DEF LoopVars, Registered
<1>2. (Halfway(it - 1))' = Halfway(it - 1) /\ (Halfway(it))' = Halfway(it)
      /\ Astray' = Astray /\ Halves' = Halves
  BY <1>1 DEF LoopVars, Halfway, Astray, Halves, Odd
<1>. QED  BY <1>1, <1>2 DEF LoopInv, LoopVars

LEMMA EnginesDiffer ==
  /\ DeletionOrder # <<"schedule", "database">> /\ DeletionOrder # <<"database">>
  /\ DeletionOrder # <<>>
  /\ Head(DeletionOrder) = "net" /\ Tail(DeletionOrder) = <<"schedule", "database">>
  /\ Head(<<"schedule", "database">>) = "schedule"
  /\ Tail(<<"schedule", "database">>) = <<"database">>
  /\ Head(<<"database">>) = "database" /\ Tail(<<"database">>) = <<>>
BY DEF DeletionOrder

(* The places before the iterator hold different machines. *)
LEMMA InPlace ==
  ASSUME TypeOK, RegistryInv, NEW t, Halfway(t), it <= size
  PROVE  /\ it \in Nat /\ size \in Nat
         /\ mem[it] \in Registered /\ mem[it] \in Machine /\ it \in Place
         /\ mem[it] \notin freed /\ mem[it] \notin told
         /\ Usable
<1>1. it \in Nat /\ it >= 1 /\ size \in Nat /\ size <= MaxMachine /\ MaxMachine \in Nat
  BY ShutdownAssumption DEF TypeOK
<1>2. it \in 1 .. size /\ it \in Place /\ \A i \in 1 .. it - 1 : i \in 1 .. size /\ i # it
  BY <1>1 DEF Place
<1>3. mem[it] \in Registered
  BY <1>2 DEF Registered
<1>4. mem[it] \in Machine
  BY <1>3, RegisteredFacts, Finite
<1>5. mem[it] \notin freed
  BY <1>2 DEF Halfway, RegistryInv
<1>6. mem[it] \notin told
  BY <1>3 DEF Halfway
<1>. QED  BY <1>1, <1>2, <1>3, <1>4, <1>5, <1>6 DEF Usable

LEMMA OddOfHalf ==
  ASSUME TypeOK, Halfway(it), ~ (it <= size)
  PROVE  Odd(start)
<1>1. it \in Nat /\ size \in Nat /\ it = size + 1 /\ Cardinality(start) = size + it
  BY ShutdownAssumption DEF TypeOK, Halfway
<1>2. Cardinality(start) = 2 * size + 1
  BY <1>1
<1>. QED  BY <1>1, <1>2 DEF Odd

LEMMA StepDisconnect ==
  ASSUME TypeOK, RegistryInv, LoopInv, Disconnect
  PROVE  LoopInv'
<1>0. /\ phase = "disconnect" /\ phase' = "delete" /\ engines' = engines /\ it' = it
      /\ freed' = freed /\ start' = start /\ accepted' = accepted
      /\ told' = told \cup {mem[it]} /\ it # size + 1
  BY DEF Disconnect, deleted, AtEnd
<1>1. engines = DeletionOrder /\ (Halfway(it - 1) \/ Astray)
  BY <1>0 DEF LoopInv
<1>2. it \in Place /\ mem[it] \in Machine /\ RemoveMachine(mem[it])
  BY DEF Disconnect, Usable
<1>3. /\ it \in Nat /\ it >= 1 /\ size \in Nat /\ MaxMachine \in Nat
      /\ size' \in {size, size - 1}
  <2>1. size' \in {size, size - 1}
    BY <1>0, <1>2, Removal DEF registry, Erased
  <2>. QED  BY <2>1, ShutdownAssumption DEF TypeOK
<1>4. CASE Astray
  <2>1. Astray'
    <3>1. Odd(start)'
      BY <1>0, <1>4 DEF Astray, Odd
    <3>2. it > size + 1 /\ it' = it
      BY <1>0, <1>4 DEF Astray
    <3>3. it' > size' + 1
      <4>1. CASE size' = size
        BY <3>2, <4>1
      <4>2. CASE size' = size - 1
        BY <1>3, <3>2, <4>2
      <4>. QED  BY <1>3, <4>1, <4>2
    <3>. QED  BY <3>1, <3>3 DEF Astray
  <2>. QED  BY <1>0, <1>1, <2>1 DEF LoopInv
<1>5. CASE Halfway(it - 1)
  <2>1. it <= size
    BY <1>0, <1>3, <1>5 DEF Halfway
  <2>2. mem[it] \in Registered /\ mem[it] \notin told
    BY <1>5, <2>1, InPlace
  <2>3. /\ Registered' = Registered \ {mem[it]}
        /\ \E i \in 1 .. size : Erased(mem[it], i)
    BY <1>0, <1>2, <2>2, Removal
  <2>4. Erased(mem[it], it)
    <3>1. PICK i \in 1 .. size : Erased(mem[it], i)
      BY <2>3
    <3>2. i = it
      BY <1>3, <2>1, <3>1 DEF Erased, RegistryInv
    <3>. QED  BY <3>1, <3>2
  <2>5. \A i \in 1 .. it - 1 : mem'[i] = mem[i]
    <3>1. \A i \in 1 .. it - 1 : i \in Place /\ ~ (it <= i)
      BY <1>2, <1>3 DEF Place
    <3>. QED  BY <2>4, <3>1 DEF Erased
  <2>6. freed' = {mem'[i] : i \in 1 .. it' - 1}
    BY <1>0, <1>5, <2>5 DEF Halfway
  <2>7. told' = start' \ Registered' /\ Registered' \subseteq start'
    BY <1>0, <1>5, <2>2, <2>3 DEF Halfway
  <2>8. Cardinality(told') = it'
    <3>1. Cardinality(told') = Cardinality(told) + 1
      BY <1>0, <2>2, Finite, FS_AddElement
    <3>. QED  BY <1>0, <1>3, <1>5, <3>1 DEF Halfway
  <2>9. Cardinality(freed') = it' - 1
    BY <1>0, <1>5 DEF Halfway
  <2>10. size' + it' = Cardinality(start') /\ it' <= size' + 1
    BY <1>0, <1>3, <1>5, <2>1, <2>4 DEF Halfway, Erased
  <2>11. Halfway(it)'
    BY <2>6, <2>7, <2>8, <2>9, <2>10 DEF Halfway
  <2>. QED  BY <1>0, <1>1, <2>11 DEF LoopInv
<1>. QED  BY <1>1, <1>4, <1>5

LEMMA StepDelete ==
  ASSUME TypeOK, RegistryInv, LoopInv, Delete
  PROVE  LoopInv'
<1>0. /\ phase = "delete" /\ phase' = "disconnect" /\ engines' = engines /\ it' = it + 1
      /\ freed' = freed \cup {mem[it]} /\ start' = start /\ told' = told
      /\ UNCHANGED <<mem, size>>
  BY DEF Delete, registry, histories, Advanced
<1>1. engines = DeletionOrder /\ (Halfway(it) \/ Astray)
  BY <1>0 DEF LoopInv
<1>3. it \in Nat /\ it >= 1 /\ size \in Nat
  BY ShutdownAssumption DEF TypeOK
<1>4. CASE Astray
  <2>1. Astray'
    BY <1>0, <1>3, <1>4 DEF Astray, Odd
  <2>. QED  BY <1>0, <1>1, <2>1 DEF LoopInv
<1>5. CASE Halfway(it) /\ ~ (it <= size)
  <2>1. Astray'
    BY <1>0, <1>3, <1>5, OddOfHalf DEF Astray, Odd
  <2>. QED  BY <1>0, <1>1, <2>1 DEF LoopInv
<1>6. CASE Halfway(it) /\ it <= size
  <2>1. Registered' = Registered
    BY <1>0 DEF Registered
  <2>2. freed' = {mem'[i] : i \in 1 .. it' - 1}
    <3>1. 1 .. it' - 1 = (1 .. it - 1) \cup {it}
      BY <1>0, <1>3
    <3>. QED  BY <1>0, <1>6, <3>1 DEF Halfway
  <2>3. Cardinality(freed') = it' - 1
    <3>1. Cardinality(freed') = Cardinality(freed) + 1
      BY <1>0, <1>6, InPlace, Finite, FS_AddElement
    <3>. QED  BY <1>0, <1>3, <1>6, <3>1 DEF Halfway
  <2>4. told' = start' \ Registered' /\ Registered' \subseteq start'
    BY <1>0, <1>6, <2>1 DEF Halfway
  <2>5. Cardinality(told') = it' - 1 /\ size' + (it' - 1) = Cardinality(start')
        /\ it' <= size' + 1
    BY <1>0, <1>3, <1>6 DEF Halfway
  <2>6. Halfway(it - 1)'
    BY <2>2, <2>3, <2>4, <2>5 DEF Halfway
  <2>. QED  BY <1>0, <1>1, <2>6 DEF LoopInv
<1>. QED  BY <1>1, <1>4, <1>5, <1>6
LEMMA NextLoopInv ==
  ASSUME TypeOK, RegistryInv, LoopInv, [Next]_vars
  PROVE  LoopInv'
<1>1. CASE UNCHANGED LoopVars
  BY <1>1, LoopStutters
<1>2. CASE Disconnect \/ Delete
  BY <1>2, StepDisconnect, StepDelete
<1>3. CASE AttachEngines \/ AcceptAuth \/ \E m \in Machine : SendFails(m)
  <2>1. /\ phase \in {"construct", "run"} /\ phase' = "run"
        /\ UNCHANGED <<engines, freed, told>>
    BY <1>3 DEF AttachEngines, AcceptAuth, SendFails, deleted, histories
  <2>. QED  BY <2>1 DEF LoopInv
<1>4. CASE Destroy
  <2>1. /\ phase = "run" /\ phase' = "game" /\ start' = Registered
        /\ UNCHANGED <<engines, freed, told, mem, size>>
    BY <1>4 DEF Destroy, deleted, registry
  <2>2. Registered' = Registered
    BY <2>1 DEF Registered
  <2>. QED  BY <2>1, <2>2 DEF LoopInv
<1>5. CASE DeleteEngine
  <2>1. UNCHANGED <<mem, size, it, freed, told, start>> /\ phase = "game" /\ engines # <<>>
    BY <1>5 DEF DeleteEngine, Faults, registry, deleted, histories
  <2>2. Registered' = Registered
    BY <2>1 DEF Registered
  <2>3. CASE engines = DeletionOrder
    <3>1. phase' = "consoles" /\ engines' = engines
      BY <1>5, <2>3, EnginesDiffer DEF DeleteEngine, Faults
    <3>. QED  BY <2>1, <2>2, <2>3, <3>1 DEF LoopInv
  <2>4. CASE engines # DeletionOrder
    <3>1. engines \in {<<"schedule", "database">>, <<"database">>} /\ Halves
      BY <2>1, <2>4 DEF LoopInv
    <3>2. phase' = "game" /\ engines' \in {<<"schedule", "database">>, <<"database">>, <<>>}
      BY <1>5, <2>1, <3>1, EnginesDiffer DEF DeleteEngine, Faults
    <3>3. Halves'
      BY <2>1, <2>2, <3>1 DEF Halves
    <3>. QED  BY <3>2, <3>3, EnginesDiffer DEF LoopInv
  <2>. QED  BY <2>3, <2>4
<1>6. CASE DisconnectConsole
  <2>1. /\ phase = "consoles" /\ phase' = "consoles"
        /\ UNCHANGED <<engines, mem, size, freed, told, start>>
    BY <1>6 DEF DisconnectConsole, registry, histories
  <2>2. Registered' = Registered
    BY <2>1 DEF Registered
  <2>. QED  BY <2>1, <2>2 DEF LoopInv
<1>7. CASE ConsolesDone
  <2>1. /\ phase = "consoles" /\ phase' = "disconnect" /\ it' = 1
        /\ UNCHANGED <<engines, mem, size, freed, told, start>>
    BY <1>7 DEF ConsolesDone, registry, deleted, histories
  <2>2. Registered' = Registered
    BY <2>1 DEF Registered
  <2>3. engines = DeletionOrder /\ freed = {} /\ told = {} /\ start = Registered
    BY <2>1 DEF LoopInv
  <2>4. freed' = {mem'[i] : i \in 1 .. it' - 1}
    BY <2>1, <2>3
  <2>5. told' = start' \ Registered' /\ Registered' \subseteq start'
    BY <2>1, <2>2, <2>3
  <2>6. Cardinality(told') = 0 /\ Cardinality(freed') = 0
    BY <2>1, <2>3, FS_EmptySet
  <2>7. size' + (it' - 1) = Cardinality(start') /\ it' <= size' + 1
    <3>1. size \in Nat /\ Cardinality(start) = size
      BY <2>3, RegisteredFacts DEF RegistryInv
    <3>. QED  BY <2>1, <3>1
  <2>8. Halfway(it - 1)'
    BY <2>1, <2>4, <2>5, <2>6, <2>7 DEF Halfway
  <2>. QED  BY <2>1, <2>3, <2>8 DEF LoopInv
<1>8. CASE (DeleteSockets /\ sockets) \/ StopIO
  <2>1. UNCHANGED <<engines, mem, size, it, freed, told, start>>
        /\ \/ phase = "disconnect" /\ it = size + 1
           \/ phase = "stop"
        /\ phase' \in {"stop", "stopped"}
    BY <1>8 DEF DeleteSockets, StopIO, AtEnd, registry, deleted, histories
  <2>2. engines = DeletionOrder /\ Halfway(it - 1) /\ it = size + 1
    <3>1. it \in Nat /\ size \in Nat
      BY ShutdownAssumption DEF TypeOK
    <3>. QED  BY <2>1, <3>1 DEF LoopInv, Astray
  <2>3. Registered' = Registered
    BY <2>1 DEF Registered
  <2>4. (Halfway(it - 1))'
    BY <2>1, <2>2, <2>3 DEF Halfway
  <2>. QED  BY <2>1, <2>2, <2>4 DEF LoopInv
<1>9. CASE ConnexionsClosed /\ io # "stopped"
  <2>1. /\ UNCHANGED <<mem, size, it, freed, told, start>>
        /\ phase = "stopped" /\ phase' = "game" /\ engines' = Tail(engines)
    BY <1>9 DEF ConnexionsClosed, NetDeleted, Faults, registry, deleted, histories
  <2>2. engines = DeletionOrder /\ Halfway(it - 1) /\ it = size + 1
    BY <2>1 DEF LoopInv
  <2>3. it \in Nat /\ size \in Nat
    BY ShutdownAssumption DEF TypeOK
  <2>4. freed = Registered
    <3>1. it - 1 = size
      BY <2>2, <2>3
    <3>. QED  BY <2>2, <3>1 DEF Halfway, Registered
  <2>5. Registered' = Registered
    BY <2>1 DEF Registered
  <2>6. Halves
    BY <2>2, <2>4 DEF Halfway, Halves
  <2>7. Halves'
    BY <2>1, <2>5, <2>6 DEF Halves
  <2>. QED  BY <2>1, <2>2, <2>7, EnginesDiffer DEF LoopInv
<1>12. CASE DisconnectWaits
  <2>1. /\ phase \in {"consoles", "disconnect"} /\ phase' = "waits"
        /\ UNCHANGED <<engines, mem, size, freed, told, start>>
    BY <1>12 DEF DisconnectWaits, registry, deleted, histories
  <2>. QED  BY <2>1 DEF LoopInv
<1>10. \/ UNCHANGED LoopVars
       \/ AttachEngines \/ AcceptAuth \/ \E m \in Machine : SendFails(m)
       \/ Destroy \/ Destructor
  <2>1. CASE Background
    BY <2>1, BackgroundKeeps DEF LoopVars, registry, deleted, histories
  <2>2. CASE UNCHANGED vars
    BY <2>2 DEF vars, LoopVars, registry, deleted, histories
  <2>3. CASE AcceptAuthThrows \/ HandlerFails
    BY <2>3 DEF AcceptAuthThrows, HandlerFails, Faults, LoopVars, registry, deleted, histories
  <2>. QED  BY <2>1, <2>2, <2>3, NextSplits DEF Engine
<1>11. CASE \/ IteratorFaults \/ (DeleteSockets /\ ~ sockets)
            \/ (ConnexionsClosed /\ io = "stopped")
  BY <1>11, LoopStutters DEF IteratorFaults, DeleteSockets, ConnexionsClosed, Faults, LoopVars,
     registry, deleted, histories
<1>. QED
  BY <1>1, <1>2, <1>3, <1>4, <1>5, <1>6, <1>7, <1>8, <1>9, <1>10, <1>11, <1>12 DEF Destructor

-------------------------------------------------------------------------------
(* What goes wrong, and when.                                              *)

SomeConsole == \E k \in Console : conPc[k] # "away"

FaultInv ==
    /\ freedConsoles # {} => SomeConsole /\ phase \notin {"construct", "run"}
    /\ RunningIsDefined
    /\ QuietDestruction
    /\ fault = "iterator" => Odd(start)

LEMMA ConsolesStay == ConsoleTypeOK /\ SomeConsole /\ [Next]_vars => SomeConsole'
<1>. SUFFICES ASSUME ConsoleTypeOK, NEW k \in Console, conPc[k] # "away", [Next]_vars
              PROVE  conPc'[k] # "away"
  BY DEF SomeConsole
<1>1. CASE UNCHANGED consoleVars
  BY <1>1 DEF consoleVars
<1>2. ASSUME NEW j \in Console,
             HandleAcceptTcpCons(j) \/ ConsoleLeaves(j) \/ ServerThreadTcpReceiveCons(j)
      PROVE  conPc'[k] # "away"
  <2>1. \/ conPc' = conPc
        \/ \E s \in {"accepted", "numbers", "constructs", "pushes", "pushing", "welcomes",
                     "done"} : conPc' = [conPc EXCEPT ![j] = s]
    BY <1>2 DEF HandleAcceptTcpCons, ConsoleLeaves, ServerThreadTcpReceiveCons,
       ReadsConsoleID, WritesConsoleID, Constructs, ConstructorThrows, PushBackSees,
       PushBackStores, PushBackFaults, Welcomes, ConsoleGoes, consoleVars
  <2>. QED  BY <2>1 DEF ConsoleTypeOK
<1>. QED  BY <1>1, <1>2, ConsolesMove DEF ConsoleStep

(* Without a thread that accepts there is nobody. *)
IoInv ==
    /\ sockets \/ io = "none"
    /\ phase \in {"construct", "run"} => io \in {"none", "runs"}
    /\ io = "none" => ~ SomeConsole /\ login = 0 /\ asked = 0 /\ ~ threw

LEMMA NextIoInv ==
  ASSUME TypeOK, IoInv, [Next]_vars
  PROVE  IoInv'
<1>1. CASE UNCHANGED <<conPc, threads>> /\ (phase' \in {"construct", "run"} =>
                                            phase \in {"construct", "run"})
  BY <1>1 DEF IoInv, SomeConsole, threads, logins
<1>2. CASE UNCHANGED vars
  BY <1>1, <1>2 DEF vars, consoleVars
<1>3. ASSUME NEW cause, Faults(cause)
      PROVE  IoInv'
  BY <1>1, <1>3 DEF Faults, consoleVars
<1>4. ASSUME NEW k \in Console, ConsoleThread(k) \/ ConsoleClientLeaves(k)
      PROVE  IoInv'
  <2>1. CASE Faults("late console")
    BY <1>3, <2>1
  <2>2. CASE UNCHANGED <<phase, threads>> /\ conPc[k] # "away"
    BY <2>2 DEF IoInv, SomeConsole, threads, logins
  <2>3. \/ Faults("late console")
        \/ UNCHANGED <<phase, threads>> /\ conPc[k] # "away"
    BY <1>4 DEF ConsoleThread, ConsoleClientLeaves, ConsoleLeaves, ServerThreadTcpReceiveCons,
       ReadsConsoleID, WritesConsoleID, Constructs, ConstructorThrows, PushBackSees,
       PushBackStores, PushBackFaults, Welcomes, ConsoleGoes
  <2>. QED  BY <2>1, <2>2, <2>3
<1>5. CASE IoAccepts
  <2>1. CASE Faults("accept")
    BY <1>3, <2>1
  <2>2. CASE io = "runs" /\ UNCHANGED <<phase, io, sockets>>
    BY <2>2 DEF IoInv
  <2>. QED  BY <1>5, <2>1, <2>2 DEF IoAccepts
<1>6. CASE IoReadsForMachine \/ IoAbortsForConsole \/ LoginsMeet
  BY <1>3, <1>6 DEF IoReadsForMachine, IoAbortsForConsole, LoginsMeet
<1>7. CASE IoReturns
  BY <1>7 DEF IoReturns, IoInv
<1>8. CASE LoginAsks
  <2>1. CASE Faults("not attached") \/ Faults("late login")
    BY <1>3, <2>1
  <2>2. CASE login > 0 /\ UNCHANGED <<phase, io, sockets>>
    BY <2>2 DEF IoInv
  <2>. QED  BY <1>8, <2>1, <2>2 DEF LoginAsks
<1>9. CASE Engine
  <2>1. CASE HandlerFails \/ IteratorFaults
    BY <1>3, <2>1 DEF HandlerFails, IteratorFaults
  <2>2. CASE DeleteEngine \/ DeleteSockets \/ ConnexionsClosed
    BY <1>1, <1>3, <2>2 DEF DeleteEngine, DeleteSockets, ConnexionsClosed, consoleVars
  <2>3. CASE AttachEngines \/ AcceptAuth \/ Destroy \/ \E m \in Machine : SendFails(m)
    BY <1>1, <2>3 DEF AttachEngines, AcceptAuth, Destroy, SendFails, consoleVars
  <2>4. CASE \/ DisconnectConsole \/ ConsolesDone \/ Disconnect \/ DisconnectWaits \/ Delete
    BY <1>1, <2>4 DEF DisconnectConsole, ConsolesDone, Disconnect, DisconnectWaits, Delete,
       consoleVars
  <2>5. CASE AcceptAuthThrows
    <3>1. ~ (login = 0 /\ asked = 0)
      BY <2>5 DEF AcceptAuthThrows, SomeLogin
    <3>2. UNCHANGED <<phase, io, sockets>> /\ io # "none"
      BY <2>5, <3>1 DEF AcceptAuthThrows, IoInv
    <3>. QED  BY <3>2 DEF IoInv
  <2>6. CASE StopIO
    BY <2>6 DEF StopIO, IoInv, logins, consoleVars, SomeConsole
  <2>. QED  BY <1>9, <2>1, <2>2, <2>3, <2>4, <2>5, <2>6 DEF Engine, Destructor
<1>. QED  BY <1>2, <1>4, <1>5, <1>6, <1>7, <1>8, <1>9, NextSplits DEF Background

(* A step that leaves everything defined. *)
LEMMA StillDefined ==
  ASSUME Defined', fault' # "iterator", freedConsoles' = freedConsoles, FaultInv,
         phase' \in {"construct", "run"} => phase \in {"construct", "run"},
         ConsoleTypeOK, [Next]_vars
  PROVE  FaultInv'
BY ConsolesStay DEF FaultInv, RunningIsDefined, QuietDestruction

(* A console's thread that faults by itself has met another, or its        *)
(* console has left.                                                       *)
LEMMA ThreadFaults ==
  ASSUME ConsoleTypeOK, ConsolesInv, Defined, NEW k \in Console,
         ServerThreadTcpReceiveCons(k), ~ Defined'
  PROVE  /\ conPc' = conPc /\ conPc[k] # "away"
         /\ \/ fault' = "push_back" /\ overlapped'
            \/ fault' = "console left" /\ left' # {}
<1>1. ConstructorThrows(k) \/ PushBackFaults(k)
  BY DEF ServerThreadTcpReceiveCons, ReadsConsoleID, WritesConsoleID, Constructs,
     PushBackSees, PushBackStores, Welcomes, Defined
<1>2. CASE ConstructorThrows(k)
  BY <1>2 DEF ConstructorThrows, consoleVars
<1>3. CASE PushBackFaults(k)
  BY <1>3 DEF PushBackFaults, consoleVars, ConsolesInv, Apart
<1>. QED  BY <1>1, <1>2, <1>3

LEMMA NextFaultInv ==
  ASSUME TypeOK, ConsolesInv, RegistryInv, LoopInv, IoInv, FaultInv, [Next]_vars
  PROVE  FaultInv'
<1>0. ConsoleTypeOK
  BY DEF TypeOK
<1>1. CASE UNCHANGED vars
  <2>1. UNCHANGED <<conPc, overlapped, left, fault, phase, engines, freedConsoles, start, io,
                    login, asked, threw>>
    BY <1>1 DEF vars, consoleVars, deleted, histories, threads, logins
  <2>. QED  BY <2>1 DEF FaultInv, RunningIsDefined, QuietDestruction, Defined, SomeConsole, Odd,
            Exists, SomeLogin, Listening
<1>. SUFFICES ASSUME Next PROVE FaultInv'
  BY <1>1
<1>2. Defined /\ fault = "none"
  BY DEF Next, Defined
<1>3. ASSUME NEW cause \in Cause, Faults(cause),
             \/ cause # "iterator" /\ SomeConsole /\ phase # "run"
             \/ cause # "iterator" /\ phase = "construct"
             \/ cause \in ByClients /\ phase # "run"
             \/ cause = "io_service" /\ phase = "stopped"
             \/ cause = "schedule's io_service" /\ phase # "run" /\ ~ Exists("net")
             \/ cause = "sockets" /\ phase # "run" /\ io = "none"
             \/ Odd(start) /\ phase # "run"
             \/ /\ phase = "run" /\ io = "runs"
                /\ \/ cause = "mAuth" /\ login > 0
                   \/ cause = "machine's handler" /\ threw
                   \/ cause = "handler" /\ (SomeLogin \/ Listening # {})
                   \/ cause = "accept"
      PROVE  FaultInv'
  <2>1. /\ UNCHANGED <<conPc, phase, engines, freedConsoles, start, io, login, asked, threw>>
        /\ fault' = cause
        /\ (Cardinality(start) % 2)' = Cardinality(start) % 2
    BY <1>3 DEF Faults, consoleVars, deleted, histories, threads, logins
  <2>2. Odd(start)' = Odd(start) /\ SomeConsole' = SomeConsole /\ Exists("net")' = Exists("net")
    BY <2>1 DEF Odd, SomeConsole, Exists
  <2>5. SomeLogin' = SomeLogin /\ Listening' = Listening
    BY <2>1 DEF SomeLogin, Listening
  <2>3. RunningIsDefined'
    BY <1>3, <2>1, <2>5 DEF RunningIsDefined, ByClients
  <2>4. QuietDestruction'
    BY <1>3, <2>1, <2>2 DEF QuietDestruction, Odd, SomeConsole, ByClients
  <2>. QED  BY <1>3, <2>1, <2>2, <2>3, <2>4 DEF FaultInv, ByClients
<1>4. CASE Engine
  <2>1. CASE /\ fault' = fault /\ freedConsoles' = freedConsoles
             /\ phase' \in {"construct", "run"} => phase \in {"construct", "run"}
    BY <1>0, <1>2, <2>1, StillDefined DEF Defined
  <2>2. CASE DisconnectConsole
    <3>1. /\ freedConsoles' # {} /\ phase = "consoles" /\ phase' = "consoles" /\ fault' = fault
          /\ it <= Len(mConsoles)
      BY <2>2 DEF DisconnectConsole
    <3>2. SomeConsole
      <4>1. it \in 1 .. Len(mConsoles) /\ mConsoles \in Seq(Console)
        BY <3>1, LenProperties DEF TypeOK, ConsoleTypeOK
      <4>2. mConsoles[it] \in Console /\ Appended(mConsoles[it])
        BY <4>1, ElementOfSeq DEF ConsolesInv
      <4>. QED  BY <4>2 DEF SomeConsole, Appended
    <3>3. SomeConsole'
      BY <1>0, <3>2, ConsolesStay
    <3>. QED  BY <1>2, <3>1, <3>3 DEF FaultInv, RunningIsDefined, QuietDestruction, Defined
  <2>3. CASE IteratorFaults
    <3>1. Odd(start)
      <4>0. it \in Nat /\ size \in Nat /\ it >= 1
        BY ShutdownAssumption DEF TypeOK
      <4>1. CASE phase = "disconnect" /\ ~ AtEnd
        <5>1. Halfway(it - 1) \/ Astray
          BY <4>1 DEF LoopInv
        <5>2. CASE Halfway(it - 1)
          <6>1. it <= size
            BY <4>0, <4>1, <5>2 DEF Halfway, AtEnd
          <6>. QED  BY <2>3, <5>2, <6>1, InPlace DEF IteratorFaults
        <5>. QED  BY <5>1, <5>2 DEF Astray
      <4>2. CASE phase = "delete"
        <5>1. Halfway(it) \/ Astray
          BY <4>2 DEF LoopInv
        <5>2. CASE Halfway(it)
          <6>1. ~ (it <= size)
            BY <2>3, <5>2, InPlace DEF IteratorFaults
          <6>. QED  BY <5>2, <6>1, OddOfHalf
        <5>. QED  BY <5>1, <5>2 DEF Astray
      <4>. QED  BY <2>3, <4>1, <4>2 DEF IteratorFaults
    <3>. QED  BY <1>3, <2>3, <3>1 DEF IteratorFaults, Cause
  <2>4. CASE (ConnexionsClosed \/ DeleteSockets) /\ ~ (fault' = fault)
    BY <1>3, <2>4 DEF ConnexionsClosed, DeleteSockets, Cause, IoInv
  <2>5. CASE AttachEngines \/ AcceptAuth \/ Destroy \/ \E m \in Machine : SendFails(m)
    BY <2>1, <2>5 DEF AttachEngines, AcceptAuth, Destroy, SendFails, deleted
  <2>6. CASE AcceptAuthThrows \/ ConsolesDone \/ Disconnect \/ DisconnectWaits
    BY <2>1, <2>6 DEF AcceptAuthThrows, ConsolesDone, Disconnect, DisconnectWaits, deleted
  <2>7. CASE Delete \/ StopIO \/ ((ConnexionsClosed \/ DeleteSockets) /\ fault' = fault)
    BY <2>1, <2>7 DEF Delete, DeleteSockets, StopIO, ConnexionsClosed, Faults, deleted
  <2>8. CASE HandlerFails
    <3>1. SomeConsole \/ ~ (login = 0 /\ asked = 0)
      BY <2>8 DEF HandlerFails, SomeLogin, Listening, SomeConsole
    <3>2. phase = "run" /\ io = "runs"
      BY <2>8, <3>1 DEF HandlerFails, IoInv
    <3>. QED  BY <1>3, <2>8, <3>2 DEF HandlerFails, Cause
  <2>9. CASE DeleteEngine
    <3>1. CASE Head(engines) = "schedule" /\ Faults("schedule's io_service")
      <4>1. phase = "game" /\ engines \in {<<"schedule", "database">>, <<"database">>}
        BY <2>9, <3>1, EnginesDiffer DEF DeleteEngine, LoopInv
      <4>2. ~ Exists("net")
        BY <4>1 DEF Exists
      <4>. QED  BY <1>3, <3>1, <4>1, <4>2 DEF Cause
    <3>2. CASE fault' = fault
      BY <2>1, <2>9, <3>2 DEF DeleteEngine, Faults, deleted
    <3>3. fault' = fault \/ (Head(engines) = "schedule" /\ Faults("schedule's io_service"))
      BY <2>9 DEF DeleteEngine
    <3>. QED  BY <3>1, <3>2, <3>3
  <2>. QED
    BY <1>4, <2>2, <2>3, <2>4, <2>5, <2>6, <2>7, <2>8, <2>9 DEF Engine, Destructor
<1>5. CASE Background
  <2>0. UNCHANGED <<phase, engines, freed, freedConsoles, start>>
    BY <1>5, BackgroundKeeps DEF deleted, histories
  <2>1. CASE fault' = fault
    BY <1>0, <1>2, <2>0, <2>1, StillDefined DEF Defined
  <2>2. phase \in {"construct", "run"} =>
            Exists("net") /\ freed = {} /\ freedConsoles = {}
    <3>1. Exists("net") <=> \E i \in 1 .. Len(engines) : engines[i] = "net"
      BY DEF Exists
    <3>2. engines = DeletionOrder => Exists("net")
      BY <3>1 DEF DeletionOrder
    <3>. QED  BY <3>2 DEF LoopInv, FaultInv
  <2>3. CASE IoAccepts /\ ~ (fault' = fault)
    <3>1. CASE Faults("accept")
      BY <1>3, <2>3, <3>1 DEF IoAccepts, Cause, ByClients
    <3>2. CASE fault' = fault
      BY <2>3, <3>2
    <3>. QED  BY <2>3, <3>1, <3>2 DEF IoAccepts, HandleAcceptTcpCons
  <2>4. CASE LoginAsks /\ ~ (fault' = fault)
    BY <1>3, <2>2, <2>4 DEF LoginAsks, Cause, ByClients
  <2>8. CASE IoReadsForMachine
    BY <1>3, <2>2, <2>8 DEF IoReadsForMachine, Cause, ByClients
  <2>9. CASE LoginsMeet
    <3>1. login \in Nat /\ asked \in Nat
      BY DEF TypeOK
    <3>2. phase = "run" => login > 0 /\ io = "runs"
      BY <2>9, <3>1 DEF LoginsMeet, IoInv
    <3>. QED  BY <1>3, <2>9, <3>2 DEF LoginsMeet, Cause, ByClients
  <2>5. CASE IoAbortsForConsole
    BY <1>3, <2>2, <2>5 DEF IoAbortsForConsole, Cause, FaultInv
  <2>6. ASSUME NEW k \in Console, ConsoleThread(k), ~ (fault' = fault)
        PROVE  FaultInv'
    <3>1. CASE Faults("late console") /\ conPc[k] \notin {"away", "done"}
               /\ (~ Exists("net") \/ k \in freedConsoles \/ phase = "consoles")
      <4>1. phase # "run" /\ SomeConsole
        BY <2>2, <3>1 DEF SomeConsole
      <4>. QED  BY <1>3, <3>1, <4>1 DEF Cause
    <3>2. CASE ServerThreadTcpReceiveCons(k)
      <4>1. /\ conPc' = conPc /\ conPc[k] # "away"
            /\ \/ fault' = "push_back" /\ overlapped'
               \/ fault' = "console left" /\ left' # {}
        BY <1>0, <1>2, <2>6, <3>2, ThreadFaults DEF Defined
      <4>2. SomeConsole /\ SomeConsole'
        BY <4>1 DEF SomeConsole
      <4>3. UNCHANGED <<io, phase>>
        BY <2>6, <3>2 DEF ConsoleThread, threads, Faults
      <4>4. phase = "run" => io' = "runs"
        BY <4>2, <4>3 DEF IoInv
      <4>5. RunningIsDefined'
        BY <4>1, <4>3, <4>4 DEF RunningIsDefined
      <4>. QED  BY <2>0, <4>1, <4>2, <4>5 DEF FaultInv, QuietDestruction, SomeConsole
    <3>. QED  BY <2>6, <3>1, <3>2 DEF ConsoleThread
  <2>7. CASE IoReturns \/ \E k \in Console : ConsoleClientLeaves(k)
    BY <2>1, <2>7 DEF IoReturns, ConsoleClientLeaves, ConsoleLeaves
  <2>. QED  BY <1>5, <2>1, <2>3, <2>4, <2>5, <2>6, <2>7, <2>8, <2>9 DEF Background
<1>. QED  BY <1>4, <1>5, NextSplits
-------------------------------------------------------------------------------
(* The registry under every step, and the types.                           *)

LEMMA NextRegistryInv ==
  ASSUME TypeOK, RegistryInv, [Next]_vars
  PROVE  /\ RegistryInv'
         /\ mem' \in [Place -> Machine \cup {Unwritten}] /\ size' \in 0 .. MaxMachine
         /\ mDeleting' \subseteq Machine /\ dbQueue' \in Seq(Machine)
         /\ accepted' \in 0 .. MaxMachine
<1>1. CASE UNCHANGED <<registry, accepted>>
  <2>1. Registered' = Registered /\ Ever' = Ever
    BY <1>1 DEF registry, Registered, Ever
  <2>. QED  BY <1>1, <2>1 DEF RegistryInv, registry, TypeOK
<1>2. CASE AcceptAuth
  BY <1>2, Acceptance DEF AcceptAuth, TypeOK
<1>3. ASSUME NEW m \in Machine, RemoveMachine(m), accepted' = accepted
      PROVE  /\ RegistryInv'
             /\ mem' \in [Place -> Machine \cup {Unwritten}] /\ size' \in 0 .. MaxMachine
             /\ mDeleting' \subseteq Machine /\ dbQueue' \in Seq(Machine)
             /\ accepted' \in 0 .. MaxMachine
  BY <1>3, Removal DEF TypeOK
<1>4. CASE Disconnect \/ \E m \in Machine : SendFails(m)
  BY <1>3, <1>4 DEF Disconnect, SendFails, Usable, histories
<1>5. \/ UNCHANGED <<registry, accepted>>
      \/ AcceptAuth \/ Disconnect \/ \E m \in Machine : SendFails(m)
  <2>1. CASE UNCHANGED vars
    BY <2>1 DEF vars, histories
  <2>2. CASE Background
    BY <2>2, BackgroundKeeps DEF histories
  <2>3. CASE AttachEngines \/ AcceptAuthThrows \/ HandlerFails \/ Destroy
    BY <2>3 DEF AttachEngines, AcceptAuthThrows, HandlerFails, Faults, Destroy, histories
  <2>4. CASE Destructor /\ ~ Disconnect
    BY <2>4 DEF Destructor, DeleteEngine, DisconnectConsole, ConsolesDone, DisconnectWaits,
       Delete, IteratorFaults, DeleteSockets, StopIO, ConnexionsClosed, Faults, histories
  <2>. QED  BY <2>1, <2>2, <2>3, <2>4, NextSplits DEF Engine
<1>. QED  BY <1>1, <1>2, <1>4, <1>5

Phases == {"construct", "run", "game", "consoles", "disconnect", "delete", "stop",
           "stopped", "waits"}

ThreadTypes ==
    /\ fault \in Cause \cup {"none"}
    /\ io \in {"none", "runs", "stopped", "returned"}
    /\ sockets \in BOOLEAN
    /\ login \in Nat
    /\ asked \in Nat
    /\ threw \in BOOLEAN

LEMMA ThreadsStutter ==
  ThreadTypes /\ UNCHANGED threads /\ fault' \in Cause \cup {"none"} => ThreadTypes'
BY DEF ThreadTypes, threads, logins

LEMMA FaultTypes ==
  ASSUME ThreadTypes, NEW cause \in Cause, Faults(cause)
  PROVE  ThreadTypes'
BY ThreadsStutter DEF Faults

LEMMA BackgroundTypes ==
  ASSUME ThreadTypes, Background
  PROVE  ThreadTypes'
<1>0. fault \in Cause \cup {"none"}
  BY DEF ThreadTypes
<1>1. ASSUME NEW k \in Console, ConsoleThread(k)
      PROVE  ThreadTypes'
  <2>1. CASE ServerThreadTcpReceiveCons(k) /\ UNCHANGED threads
    <3>1. fault' \in Cause \cup {"none"}
      BY <1>0, <2>1 DEF ServerThreadTcpReceiveCons, ReadsConsoleID, WritesConsoleID, Constructs,
         ConstructorThrows, PushBackSees, PushBackStores, PushBackFaults, Welcomes, Cause
    <3>. QED  BY <2>1, <3>1, ThreadsStutter
  <2>2. CASE Faults("late console")
    BY <2>2, FaultTypes DEF Cause
  <2>. QED  BY <1>1, <2>1, <2>2 DEF ConsoleThread
<1>2. ASSUME NEW k \in Console, ConsoleClientLeaves(k)
      PROVE  ThreadTypes'
  BY <1>0, <1>2, ThreadsStutter DEF ConsoleClientLeaves, ConsoleLeaves
<1>3. CASE IoAccepts
  <2>1. CASE Faults("accept")
    BY <2>1, FaultTypes DEF Cause
  <2>2. CASE ~ Faults("accept")
    <3>1. fault' = fault /\ UNCHANGED <<io, sockets, asked, threw>>
      BY <1>3, <2>2 DEF IoAccepts, HandleAcceptTcpCons
    <3>2. login' \in {login, login + 1}
      BY <1>3, <2>2 DEF IoAccepts
    <3>. QED  BY <3>1, <3>2 DEF ThreadTypes
  <2>. QED  BY <2>1, <2>2
<1>4. CASE IoReadsForMachine \/ IoAbortsForConsole \/ LoginsMeet
  BY <1>4, FaultTypes DEF IoReadsForMachine, IoAbortsForConsole, LoginsMeet, Cause
<1>5. CASE IoReturns
  BY <1>5 DEF IoReturns, ThreadTypes, logins
<1>6. CASE LoginAsks
  <2>1. CASE Faults("not attached") \/ Faults("late login")
    BY <2>1, FaultTypes DEF Cause
  <2>2. CASE ~ (Faults("not attached") \/ Faults("late login"))
    <3>1. /\ login > 0 /\ login' = login - 1 /\ asked' = asked + 1
          /\ UNCHANGED <<fault, io, sockets, threw>>
      BY <1>6, <2>2 DEF LoginAsks
    <3>. QED  BY <3>1 DEF ThreadTypes
  <2>. QED  BY <2>1, <2>2
<1>. QED  BY <1>1, <1>2, <1>3, <1>4, <1>5, <1>6 DEF Background

LEMMA EngineThreadTypes ==
  ASSUME ThreadTypes, Engine
  PROVE  ThreadTypes'
<1>0. fault \in Cause \cup {"none"}
  BY DEF ThreadTypes
<1>1. CASE UNCHANGED threads /\ fault' = fault
  BY <1>0, <1>1, ThreadsStutter
<1>2. CASE AttachEngines \/ AcceptAuth \/ Destroy \/ \E m \in Machine : SendFails(m)
  BY <1>1, <1>2 DEF AttachEngines, AcceptAuth, Destroy, SendFails
<1>3. CASE AcceptAuthThrows
  BY <1>3 DEF AcceptAuthThrows, ThreadTypes, logins
<1>4. ASSUME NEW cause \in {"handler", "iterator", "sockets", "io_service",
                            "schedule's io_service"}, Faults(cause)
      PROVE  ThreadTypes'
  BY <1>4, FaultTypes DEF Cause
<1>5. CASE HandlerFails \/ IteratorFaults
  BY <1>4, <1>5 DEF HandlerFails, IteratorFaults
<1>6. CASE DeleteEngine \/ DeleteSockets \/ ConnexionsClosed
  BY <1>1, <1>4, <1>6 DEF DeleteEngine, DeleteSockets, ConnexionsClosed
<1>7. CASE \/ DisconnectConsole \/ ConsolesDone \/ Disconnect \/ DisconnectWaits \/ Delete
  BY <1>1, <1>7 DEF DisconnectConsole, ConsolesDone, Disconnect, DisconnectWaits, Delete
<1>8. CASE StopIO
  BY <1>8 DEF StopIO, ThreadTypes, logins
<1>. QED  BY <1>2, <1>3, <1>5, <1>6, <1>7, <1>8 DEF Engine, Destructor

LEMMA EngineTypes ==
  ASSUME TypeOK, LoopInv, Engine
  PROVE  /\ phase' \in Phases
         /\ it' \in Nat \ {0} /\ freed' \subseteq Machine /\ told' \subseteq Machine
         /\ freedConsoles' \subseteq Console
         /\ start' \subseteq Machine \/ start' = Registered
<1>0. /\ phase \in Phases
      /\ it \in Nat /\ it # 0 /\ freed \subseteq Machine /\ told \subseteq Machine
      /\ freedConsoles \subseteq Console /\ start \subseteq Machine
  BY DEF TypeOK, Phases
<1>1. CASE AttachEngines \/ AcceptAuth \/ Destroy \/ \E m \in Machine : SendFails(m)
  BY <1>0, <1>1 DEF AttachEngines, AcceptAuth, Destroy, SendFails, deleted, histories, Phases
<1>2. CASE ConsolesDone \/ DisconnectWaits \/ StopIO
  BY <1>0, <1>2 DEF ConsolesDone, DisconnectWaits, StopIO, deleted, histories, Phases
<1>3. CASE DisconnectConsole
  <2>1. it <= Len(mConsoles)
    BY <1>3 DEF DisconnectConsole
  <2>2. it \in 1 .. Len(mConsoles) /\ mConsoles \in Seq(Console)
    BY <1>0, <2>1, LenProperties DEF TypeOK, ConsoleTypeOK
  <2>3. mConsoles[it] \in Console
    BY <2>2, ElementOfSeq
  <2>. QED  BY <1>0, <1>3, <2>3 DEF DisconnectConsole, histories
<1>4. CASE Disconnect \/ Delete
  <2>1. mem[it] \in Machine
    BY <1>4 DEF Disconnect, Delete, Usable
  <2>. QED  BY <1>0, <1>4, <2>1 DEF Disconnect, Delete, Advanced, deleted, histories, Phases
<1>5. CASE \/ AcceptAuthThrows \/ HandlerFails \/ IteratorFaults \/ ConnexionsClosed
           \/ DeleteEngine \/ DeleteSockets
  BY <1>0, <1>5 DEF AcceptAuthThrows, HandlerFails, IteratorFaults, ConnexionsClosed,
     DeleteEngine, DeleteSockets, Faults, deleted, histories, Phases
<1>. QED  BY <1>1, <1>2, <1>3, <1>4, <1>5 DEF Engine, Destructor

LEMMA EnginesType ==
  ASSUME NEW e \in {DeletionOrder, <<"schedule", "database">>, <<"database">>, <<>>}
  PROVE  e \in Seq({"net", "schedule", "database"})
<1>. DEFINE S == {"net", "schedule", "database"}
<1>1. "net" \in S /\ "schedule" \in S /\ "database" \in S
  OBVIOUS
<1>. HIDE DEF S
<1>2. DeletionOrder \in Seq(S)
  BY <1>1 DEF DeletionOrder
<1>3. <<"schedule", "database">> \in Seq(S)
  BY <1>1
<1>4. <<"database">> \in Seq(S)
  BY <1>1
<1>5. <<>> \in Seq(S)
  OBVIOUS
<1>6. e \in Seq(S)
  BY <1>2, <1>3, <1>4, <1>5
<1>. QED  BY <1>6 DEF S

LEMMA NextTypeOK ==
  ASSUME TypeOK, ConsolesInv, RegistryInv, LoopInv, [Next]_vars
  PROVE  TypeOK'
<1>1. ConsoleTypeOK'
  BY NextConsolesInv DEF TypeOK
<1>2. engines' \in Seq({"net", "schedule", "database"})
  BY NextLoopInv, EnginesType DEF LoopInv
<1>3. /\ mem' \in [Place -> Machine \cup {Unwritten}] /\ size' \in 0 .. MaxMachine
      /\ mDeleting' \subseteq Machine /\ dbQueue' \in Seq(Machine)
      /\ accepted' \in 0 .. MaxMachine
  BY NextRegistryInv
<1>4. /\ phase' \in Phases
      /\ it' \in Nat \ {0} /\ freed' \subseteq Machine /\ told' \subseteq Machine
      /\ freedConsoles' \subseteq Console
      /\ start' \subseteq Machine
  <2>1. CASE UNCHANGED vars
    BY <2>1 DEF TypeOK, vars, deleted, histories, Phases
  <2>2. CASE Background
    BY <2>2, BackgroundKeeps DEF TypeOK, deleted, histories, Phases
  <2>3. CASE Engine
    BY <2>3, EngineTypes, RegisteredFacts, Finite
  <2>. QED  BY <2>1, <2>2, <2>3, NextSplits
<1>5. ThreadTypes'
  <2>1. ThreadTypes
    BY DEF TypeOK, ThreadTypes
  <2>2. CASE UNCHANGED vars
    BY <2>1, <2>2 DEF vars, ThreadTypes, threads, logins
  <2>. QED  BY <2>1, <2>2, BackgroundTypes, EngineThreadTypes, NextSplits
<1>. QED  BY <1>1, <1>2, <1>3, <1>4, <1>5 DEF TypeOK, ThreadTypes, Phases

-------------------------------------------------------------------------------
IInv == TypeOK /\ ConsolesInv /\ RegistryInv /\ LoopInv /\ IoInv /\ FaultInv

LEMMA InitIInv == Init => IInv
<1>. SUFFICES ASSUME Init PROVE IInv
  OBVIOUS
<1>1. ConsoleTypeOK /\ ConsolesInv
  <2>1. /\ conPc = [k \in Console |-> "away"] /\ mNextConsoleID = 1
        /\ mID = [k \in Console |-> 0] /\ mConsoles = <<>> /\ seen = [k \in Console |-> 0]
        /\ left = {} /\ overlapped = FALSE
    BY DEF Init, ConsoleInit
  <2>2. ConsoleTypeOK
    <3>1. /\ conPc \in [Console -> {"away", "accepted", "numbers", "constructs", "pushes",
                                    "pushing", "welcomes", "done"}]
          /\ mID \in [Console -> Nat] /\ seen \in [Console -> Nat]
      BY <2>1
    <3>2. mConsoles \in Seq(Console)
      BY <2>1
    <3>3. overlapped \in BOOLEAN
      BY <2>1
    <3>. QED  BY <2>1, <3>1, <3>2, <3>3 DEF ConsoleTypeOK
  <2>3. \A k \in Console : conPc[k] = "away"
    BY <2>1
  <2>4. Apart
    BY <2>1, <2>3 DEF Apart, Appended, HasNumber
  <2>. QED  BY <2>1, <2>2, <2>4 DEF ConsolesInv
<1>2. Registered = {} /\ Ever = {}
  BY DEF Init, Registered, Ever
<1>3. RegistryInv
  <2>1. Cardinality({}) = 0
    BY FS_EmptySet
  <2>2. size = 0 /\ accepted = 0 /\ mDeleting = {} /\ dbQueue = <<>>
    BY DEF Init
  <2>. QED  BY <1>2, <2>1, <2>2 DEF RegistryInv
<1>4. LoopInv
  BY DEF Init, LoopInv
<1>5. FaultInv
  BY DEF Init, FaultInv, RunningIsDefined, QuietDestruction, Defined
<1>7. IoInv
  BY DEF Init, ConsoleInit, IoInv, SomeConsole
<1>6. TypeOK
  <2>1. /\ mem \in [Place -> Machine \cup {Unwritten}]
        /\ 0 \in 0 .. MaxMachine
    BY ShutdownAssumption DEF Init
  <2>2. dbQueue \in Seq(Machine)
    BY DEF Init
  <2>5. login \in Nat /\ asked \in Nat /\ threw \in BOOLEAN /\ sockets \in BOOLEAN
    BY DEF Init
  <2>3. engines \in Seq({"net", "schedule", "database"})
    BY <1>4, EnginesType DEF LoopInv
  <2>4. /\ fault = "none" /\ phase = "construct" /\ size = 0 /\ it = 1 /\ mDeleting = {}
        /\ freed = {} /\ freedConsoles = {} /\ io \in {"none", "runs"} /\ accepted = 0 /\ start = {}
        /\ told = {}
    BY DEF Init
  <2>. QED  BY <1>1, <2>1, <2>2, <2>3, <2>4, <2>5 DEF TypeOK
<1>. QED  BY <1>1, <1>3, <1>4, <1>5, <1>6, <1>7 DEF IInv

LEMMA Invariance == Spec => []IInv
<1>1. Init => IInv
  BY InitIInv
<1>2. IInv /\ [Next]_vars => IInv'
  <2>. SUFFICES ASSUME IInv, [Next]_vars PROVE IInv'
    OBVIOUS
  <2>1. TypeOK /\ ConsoleTypeOK /\ ConsolesInv /\ RegistryInv /\ LoopInv /\ IoInv /\ FaultInv
    BY DEF IInv, TypeOK
  <2>. QED
    BY <2>1, NextTypeOK, NextConsolesInv, NextRegistryInv, NextLoopInv, NextIoInv, NextFaultInv
       DEF IInv
<1>. QED  BY <1>1, <1>2, PTL DEF Spec

(* Every variable of the game's life keeps its type; in particular the     *)
(* iterator never leaves the numbers, though it may leave the vector.      *)
THEOREM TypeCorrect == Spec => []TypeOK
<1>1. IInv => TypeOK
  BY DEF IInv
<1>. QED  BY <1>1, Invariance, PTL

(* Consoles that connect one after the other are all registered, each once *)
(* and under a number of its own, however many they are.                   *)
THEOREM ConsolesRegistered == Spec => []ConsolesKept
<1>1. IInv => ConsolesKept
  <2>. SUFFICES ASSUME IInv, ~ overlapped
                PROVE  /\ \A k \in Console :
                            Appended(k) <=> \E i \in 1 .. Len(mConsoles) : mConsoles[i] = k
                       /\ \A i, j \in 1 .. Len(mConsoles) :
                            i # j => mID[mConsoles[i]] # mID[mConsoles[j]]
    BY DEF ConsolesKept
  <2>1. \A i \in 1 .. Len(mConsoles) : mConsoles[i] \in Console /\ Appended(mConsoles[i])
    BY ElementOfSeq DEF IInv, TypeOK, ConsoleTypeOK, ConsolesInv
  <2>2. Apart
    BY DEF IInv, ConsolesInv
  <2>3. \A i \in 1 .. Len(mConsoles) : HasNumber(mConsoles[i])
    BY <2>1 DEF Appended, HasNumber
  <2>. QED  BY <2>1, <2>2, <2>3 DEF Apart
<1>. QED  BY <1>1, Invariance, PTL

(* Nothing becomes undefined in a running game, and no assertion ends it,  *)
(* but by consoles or logins that overlap, by a connection that is gone    *)
(* when it is accepted, or by a client that has logged in; and nothing at  *)
(* all if a port could not be bound.                                       *)
THEOREM RunsDefined == Spec => []RunningIsDefined
<1>1. IInv => RunningIsDefined
  BY DEF IInv, FaultInv
<1>. QED  BY <1>1, Invariance, PTL

(* Each machine that left the vector was reported once.                    *)
THEOREM AllRemovalsReported == Spec => []RemovalsReported
<1>1. IInv => RemovalsReported
  <2>. SUFFICES ASSUME IInv PROVE RemovalsReported
    OBVIOUS
  <2>1. RegistryInv /\ mDeleting = (1 .. accepted) \ Registered
    BY DEF IInv, RegistryInv, Ever
  <2>2. {dbQueue[i] : i \in 1 .. Len(dbQueue)} = mDeleting
    <3>1. \A i \in 1 .. Len(dbQueue) : dbQueue[i] \in mDeleting
      BY <2>1 DEF RegistryInv
    <3>2. \A m \in mDeleting : \E i \in 1 .. Len(dbQueue) : dbQueue[i] = m
      BY <2>1 DEF RegistryInv
    <3>. QED  BY <3>1, <3>2
  <2>3. Len(dbQueue) = Cardinality(mDeleting)
    BY <2>1 DEF RegistryInv
  <2>. QED  BY <2>1, <2>2, <2>3 DEF RemovalsReported
<1>. QED  BY <1>1, Invariance, PTL

(* The destructor of the network engine tells half of the machines and     *)
(* deletes the other half, if it comes to its end, and it cannot when      *)
(* their number is odd.                                                    *)
THEOREM HalfOfTheMachines == Spec => []ClosedHalfway
<1>1. IInv => ClosedHalfway
  <2>. SUFFICES ASSUME IInv PROVE ClosedHalfway
    OBVIOUS
  <2>1. Closed => engines # DeletionOrder
    BY DEF Closed, Exists, DeletionOrder
  <2>2. Closed => Halves
    BY <2>1 DEF IInv, LoopInv
  <2>. QED  BY <2>2 DEF ClosedHalfway, Halves, IInv, FaultInv, Odd
<1>. QED  BY <1>1, Invariance, PTL

(* What may end a quiet destruction undefined: the threads of the two      *)
(* io_services, and the sockets of a constructor that failed, if the       *)
(* number of machines is even.                                             *)
THEOREM QuietlyDestroyed == Spec => []QuietDestruction
<1>1. IInv => QuietDestruction
  BY DEF IInv, FaultInv
<1>. QED  BY <1>1, Invariance, PTL

(* The database engine outlives every event that is pushed to it.          *)
THEOREM DatabaseOutlives == Spec => EventsReachLivingEngine
<1>1. ASSUME IInv, [Next]_vars
      PROVE  dbQueue' # dbQueue => Exists("database")
  <2>. SUFFICES ASSUME dbQueue' # dbQueue PROVE Exists("database")
    OBVIOUS
  <2>1. Disconnect \/ \E m \in Machine : SendFails(m)
    <3>1. ~ UNCHANGED vars
      BY DEF vars, registry
    <3>2. ~ Background
      BY BackgroundKeeps DEF registry
    <3>3. CASE AttachEngines \/ AcceptAuth \/ AcceptAuthThrows \/ HandlerFails \/ Destroy
      BY <3>3 DEF AttachEngines, AcceptAuth, AcceptAuthThrows, HandlerFails, Faults, Destroy,
         registry
    <3>4. CASE Destructor /\ ~ Disconnect
      BY <3>4 DEF Destructor, DeleteEngine, DisconnectConsole, ConsolesDone, DisconnectWaits,
         Delete, IteratorFaults, DeleteSockets, StopIO, ConnexionsClosed, Faults, registry
    <3>. QED  BY <1>1, <3>1, <3>2, <3>3, <3>4, NextSplits DEF Engine
  <2>2. phase \in {"disconnect", "run"}
    BY <2>1 DEF Disconnect, SendFails
  <2>3. engines = DeletionOrder
    BY <1>1, <2>2 DEF IInv, LoopInv
  <2>4. DeletionOrder[3] = "database" /\ 3 \in 1 .. Len(DeletionOrder)
    BY DEF DeletionOrder
  <2>. QED  BY <2>3, <2>4 DEF Exists
<1>2. IInv /\ [Next]_vars => [dbQueue' # dbQueue => Exists("database")]_vars
  BY <1>1
<1>. QED  BY <1>2, Invariance, PTL DEF Spec, EventsReachLivingEngine
===============================================================================
