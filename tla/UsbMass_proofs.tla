--------------------------- MODULE UsbMass_proofs ---------------------------
(* Theorems about UsbMass, for any number of devices, drives, files and      *)
(* threads.                                                                  *)
EXTENDS UsbMass, FiniteSetTheorems, WellFoundedInduction, TLAPS

\* The least of some numbers is one of them, and below the others.
LEMMA LeastIn ==
  ASSUME NEW S \in SUBSET Nat, S # {}
  PROVE  Least(S) \in S /\ \A y \in S : Least(S) <= y
<1> DEFINE R == {p \in Nat \X Nat : p[1] < p[2]}
<1>1. IsWellFoundedOn(R, Nat)
  <2>1. OpToRel(<, Nat) = R
    BY DEF OpToRel
  <2> QED BY <2>1, NatLessThanWellFounded
<1> HIDE DEF R
<1>2. PICK x \in S : \A y \in S : <<y, x>> \notin R
  BY <1>1, WFMin
<1>3. ASSUME NEW y \in S PROVE x <= y
  <2>1. <<y, x>> \notin R /\ <<y, x>> \in Nat \X Nat
    BY <1>2
  <2>2. ~(y < x)
    BY <2>1 DEF R
  <2> QED BY <2>1, <2>2
<1>4. \E m \in S : \A y \in S : m <= y
  BY <1>3
<1> QED BY <1>4, Zenon DEF Least

-----------------------------------------------------------------------------
(* Types *)

\* The devices, the drives, the files and the calls, each with its own part of the types.
DeviceTypes ==
  /\ quiet \in BOOLEAN /\ present \subseteq Dev
  /\ devId \in [Slot -> Dev \cup {None}] /\ status \in [Slot -> SUBSET {"detected", "configured"}]
  /\ opened \in [Slot -> BOOLEAN] /\ cache \in [Slot -> BOOLEAN]
  /\ removing \in {<<0, "none">>} \cup (Slot \X {"unmount", "kill", "free"})
  /\ mount \in [Drive -> {0} \cup Slot]
FileTypes ==
  /\ rec \in [Rec -> {None} \cup [name : Name, write : BOOLEAN]]
  /\ fd \in [Thread -> {0} \cup Rec] /\ file \subseteq Name
CallTypes ==
  /\ lock \in Thread \cup {None}
  /\ pc \in [Thread -> {"idle", "lock", "get", "config", "warm", "cache", "part", "do"}]
  /\ call \in [Thread -> Call] /\ unit \in [Thread -> Drive]
  /\ at \in [Thread -> {0} \cup Slot] /\ vol \in [Thread -> {0} \cup Slot]

\* The parts are the whole.
LEMMA Parts == TypeOK <=> DeviceTypes /\ FileTypes /\ CallTypes
BY Zenon DEF TypeOK, DeviceTypes, FileTypes, CallTypes

\* The same, after a step.
LEMMA PartsNext == DeviceTypes' /\ FileTypes' /\ CallTypes' => TypeOK'
BY Zenon DEF TypeOK, DeviceTypes, FileTypes, CallTypes

\* A function with one value replaced.
LEMMA ExceptType ==
  ASSUME NEW S, NEW T, NEW f \in [S -> T], NEW x, NEW v \in T
  PROVE  [f EXCEPT ![x] = v] \in [S -> T]
OBVIOUS

\* What is in the slots and the drives before the first device comes.
LEMMA TypesStart == Init => TypeOK
<1> SUFFICES ASSUME Init PROVE TypeOK  OBVIOUS
<1>1. DeviceTypes
  BY MassAssumption DEF Init, DeviceTypes
<1>2. FileTypes
  BY DEF Init, FileTypes
<1>3. [kind |-> "other"] \in Call /\ 1 \in Drive
  BY MassAssumption DEF Call, Drive
<1>4. CallTypes
  BY <1>3 DEF Init, CallTypes
<1> QED BY <1>1, <1>2, <1>4, Parts

\* mass_stor_findDevice gives a slot, or none.
LEMMA FindGives == ASSUME NEW id, NEW create PROVE Find(id, create) \in {0} \cup Slot
<1> DEFINE has == {s \in Slot : devId[s] = id}
           free == {s \in Slot : devId[s] = None}
<1>1. has \in SUBSET Nat /\ free \in SUBSET Nat
  BY MassAssumption DEF Slot
<1>2. has # {} => Least(has) \in Slot
  BY <1>1, LeastIn
<1>3. free # {} => Least(free) \in Slot
  BY <1>1, LeastIn
<1> HIDE DEF has, free
<1>4. Find(id, create) = IF has # {} THEN Least(has) ELSE IF create /\ free # {} THEN Least(free) ELSE 0
  BY Zenon DEF Find, has, free
<1> QED BY <1>2, <1>3, <1>4

\* The USB driver's thread writes in slots and drives only.
LEMMA UsbTypes ==
  ASSUME TypeOK, UsbStep \/ \E d \in Dev : Connect(d) \/ Disconnect(d)
  PROVE  TypeOK'
<1>0. DeviceTypes /\ FileTypes /\ CallTypes
  BY Parts
<1>1. FileTypes' /\ CallTypes'
  BY <1>0, Zenon DEF FileTypes, CallTypes, UsbStep, Connect, Disconnect, Unmount, Kill, Free, files, calls
<1>2. DeviceTypes'
  <2>1. ASSUME NEW d \in Dev, Connect(d) PROVE DeviceTypes'
    <3> DEFINE s == Find(d, TRUE)
    <3>1. s \in {0} \cup Slot
      BY FindGives
    <3> HIDE DEF s
    <3>2. UNCHANGED <<quiet, removing, mount>> /\ present' = present \cup {d}
      BY <2>1 DEF Connect
    <3>3. \/ /\ devId' = [devId EXCEPT ![s] = d]
             /\ status' = [status EXCEPT ![s] = {"detected"}]
             /\ opened' = [opened EXCEPT ![s] = TRUE] /\ UNCHANGED cache
          \/ status' = [status EXCEPT ![s] = {}] /\ UNCHANGED <<devId, opened, cache>>
          \/ UNCHANGED <<devId, status, opened, cache>>
      BY <2>1, Zenon DEF Connect, s, slots
    <3>4. devId' \in [Slot -> Dev \cup {None}]
      BY <1>0, <3>3, ExceptType DEF DeviceTypes
    <3>5. status' \in [Slot -> SUBSET {"detected", "configured"}]
      BY <1>0, <3>3, ExceptType DEF DeviceTypes
    <3>6. opened' \in [Slot -> BOOLEAN] /\ cache' \in [Slot -> BOOLEAN]
      BY <1>0, <3>3, ExceptType DEF DeviceTypes
    <3>7. quiet' \in BOOLEAN /\ present' \subseteq Dev
      BY <1>0, <3>2 DEF DeviceTypes
    <3> QED BY <1>0, <3>2, <3>4, <3>5, <3>6, <3>7, Zenon DEF DeviceTypes
  <2>2. ASSUME NEW d \in Dev, Disconnect(d) PROVE DeviceTypes'
    <3> DEFINE s == Find(d, FALSE)
    <3>1. s \in {0} \cup Slot
      BY FindGives
    <3> HIDE DEF s
    <3>2. UNCHANGED <<quiet, devId, cache, mount>> /\ present' = present \ {d}
      BY <2>2 DEF Disconnect
    <3>3. \/ /\ s # 0 /\ removing' = <<s, "unmount">>
             /\ status' = [status EXCEPT ![s] = {}] /\ opened' = [opened EXCEPT ![s] = FALSE]
          \/ UNCHANGED <<opened, status, removing>>
      BY <2>2, Zenon DEF Disconnect, s
    <3>4. status' \in [Slot -> SUBSET {"detected", "configured"}]
      BY <1>0, <3>3, ExceptType DEF DeviceTypes
    <3>5. opened' \in [Slot -> BOOLEAN]
      BY <1>0, <3>3, ExceptType DEF DeviceTypes
    <3>6. removing' \in {<<0, "none">>} \cup (Slot \X {"unmount", "kill", "free"})
      BY <1>0, <3>1, <3>3 DEF DeviceTypes
    <3>7. quiet' \in BOOLEAN /\ present' \subseteq Dev
      BY <1>0, <3>2 DEF DeviceTypes
    <3> QED BY <1>0, <3>2, <3>4, <3>5, <3>6, <3>7, Zenon DEF DeviceTypes
  <2>3. CASE Unmount
    BY <1>0, <2>3 DEF Unmount, DeviceTypes, slots
  <2>4. CASE Kill
    BY <1>0, <2>4 DEF Kill, DeviceTypes
  <2>5. CASE Free
    BY <1>0, <2>5 DEF Free, DeviceTypes
  <2> QED BY <2>1, <2>2, <2>3, <2>4, <2>5 DEF UsbStep
<1> QED BY <1>1, <1>2, PartsNext

\* What a call leaves alone keeps its types.
LEMMA SameDevice == ASSUME TypeOK, UNCHANGED <<quiet, present, devId, status, opened, cache, removing, mount>>
                    PROVE  DeviceTypes'
BY Zenon DEF TypeOK, DeviceTypes
\* The same for the files.
LEMMA SameFiles == ASSUME TypeOK, UNCHANGED files PROVE FileTypes'
BY Zenon DEF TypeOK, FileTypes, files

\* _fs_unlock: the call is over.
LEMMA ReturnTypes ==
  ASSUME TypeOK, NEW t \in Thread, Return(t) PROVE CallTypes'
<1> USE DEF Return, TypeOK
<1>1. [kind |-> "other"] \in Call /\ 1 \in Drive
  BY MassAssumption DEF Call, Drive
<1>2. lock' \in Thread \cup {None}
  OBVIOUS
<1>3. pc' \in [Thread -> {"idle", "lock", "get", "config", "warm", "cache", "part", "do"}]
  BY ExceptType
<1>4. call' \in [Thread -> Call]
  BY <1>1, ExceptType
<1>5. unit' \in [Thread -> Drive]
  BY <1>1, ExceptType
<1>6. at' \in [Thread -> {0} \cup Slot] /\ vol' \in [Thread -> {0} \cup Slot]
  BY ExceptType
<1> QED BY <1>2, <1>3, <1>4, <1>5, <1>6, Zenon DEF CallTypes

\* Begin.
LEMMA BeginTypes == ASSUME TypeOK, NEW t \in Thread, Begin(t) PROVE TypeOK'
<1>1. DeviceTypes' /\ FileTypes'
  BY SameDevice, SameFiles DEF Begin, slots
<1>2. PICK c \in Call, u \in Drive : call' = [call EXCEPT ![t] = c] /\ unit' = [unit EXCEPT ![t] = u]
  BY DEF Begin
<1>3. call' \in [Thread -> Call] /\ unit' \in [Thread -> Drive]
  BY <1>2, ExceptType DEF TypeOK
<1>4. pc' = [pc EXCEPT ![t] = "lock"] /\ UNCHANGED <<lock, at, vol>>
  BY DEF Begin
<1>5. CallTypes'
  BY <1>3, <1>4, ExceptType DEF CallTypes, TypeOK
<1> QED BY <1>1, <1>5, PartsNext
\* Lock.
LEMMA LockTypes == ASSUME TypeOK, NEW t \in Thread, Lock(t) PROVE TypeOK'
<1> USE DEF Lock, TypeOK
<1>1. DeviceTypes'
  BY SameDevice DEF slots
<1>2. CallTypes'
  <2>1. lock' = t /\ pc' = [pc EXCEPT ![t] = "get"] /\ at' = [at EXCEPT ![t] = 0] /\ UNCHANGED <<call, unit, vol>>
    OBVIOUS
  <2> QED BY <2>1, ExceptType DEF CallTypes
<1>3. FileTypes'
  <2>1. \/ rec' = [rec EXCEPT ![fd[t]] = None] /\ fd' = [fd EXCEPT ![t] = 0]
        \/ UNCHANGED <<rec, fd>>
    OBVIOUS
  <2>2. rec' \in [Rec -> {None} \cup [name : Name, write : BOOLEAN]]
    BY <2>1, ExceptType
  <2>3. fd' \in [Thread -> {0} \cup Rec]
    BY <2>1, ExceptType
  <2> QED BY <2>2, <2>3 DEF FileTypes
<1> QED BY <1>1, <1>2, <1>3, PartsNext

\* GetData.
LEMMA GetDataTypes == ASSUME TypeOK, NEW t \in Thread, GetData(t) PROVE TypeOK'
<1>1. FileTypes'
  BY SameFiles DEF GetData
<1>2. UNCHANGED <<quiet, present, devId, status, opened, cache, removing, mount>>
  BY DEF GetData, slots
<1>3. \/ /\ vol' = [vol EXCEPT ![t] = mount[unit[t]]] /\ pc' = [pc EXCEPT ![t] = "do"]
         /\ UNCHANGED <<at, lock, call, unit>>
      \/ \E s \in Slot : /\ at' = [at EXCEPT ![t] = s] /\ pc' = [pc EXCEPT ![t] = "config"]
                         /\ UNCHANGED <<vol, lock, call, unit>>
      \/ Return(t)
  <2>1. CASE Unconfigured(t) # {}
    <3>1. Unconfigured(t) \in SUBSET Slot /\ Slot \subseteq Nat
      BY MassAssumption DEF Unconfigured, Slot
    <3>2. Least(Unconfigured(t)) \in Slot
      BY <2>1, <3>1, LeastIn
    <3> QED BY <2>1, <3>2, Zenon DEF GetData
  <2>2. CASE Unconfigured(t) = {}
    BY <2>2, Zenon DEF GetData
  <2> QED BY <2>1, <2>2
<1>5. DeviceTypes'
  BY <1>2, Zenon DEF DeviceTypes, TypeOK
<1>6. mount[unit[t]] \in {0} \cup Slot
  BY DEF TypeOK
<1>7. CallTypes'
  <2>1. CASE /\ vol' = [vol EXCEPT ![t] = mount[unit[t]]] /\ pc' = [pc EXCEPT ![t] = "do"]
             /\ UNCHANGED <<at, lock, call, unit>>
    BY <1>6, <2>1, ExceptType DEF CallTypes, TypeOK
  <2>2. ASSUME NEW s \in Slot, at' = [at EXCEPT ![t] = s], pc' = [pc EXCEPT ![t] = "config"],
               UNCHANGED <<vol, lock, call, unit>>
        PROVE  CallTypes'
    BY <2>2, ExceptType DEF CallTypes, TypeOK
  <2> QED BY <1>3, <2>1, <2>2, ReturnTypes
<1> QED BY <1>1, <1>5, <1>7, PartsNext

\* Configure.
LEMMA ConfigureTypes == ASSUME TypeOK, NEW t \in Thread, Configure(t) PROVE TypeOK'
<1>0. /\ status \in [Slot -> SUBSET {"detected", "configured"}]
      /\ pc \in [Thread -> {"idle", "lock", "get", "config", "warm", "cache", "part", "do"}]
  BY DEF TypeOK
<1>1. FileTypes'
  BY SameFiles DEF Configure
<1>2. /\ status' = [status EXCEPT ![at[t]] = status[at[t]] \cup {"configured"}]
      /\ pc' = [pc EXCEPT ![t] = "warm"]
  BY DEF Configure
<1>3. status' \in [Slot -> SUBSET {"detected", "configured"}]
  BY <1>0, <1>2
<1>4. pc' \in [Thread -> {"idle", "lock", "get", "config", "warm", "cache", "part", "do"}]
  BY <1>0, <1>2, ExceptType
<1>5. UNCHANGED <<quiet, present, devId, opened, cache, removing, mount, lock, call, unit, at, vol>>
  BY DEF Configure
<1>6. DeviceTypes' /\ CallTypes'
  BY <1>3, <1>4, <1>5, Zenon DEF DeviceTypes, CallTypes, TypeOK
<1> QED BY <1>1, <1>6, PartsNext

\* WarmUp.
LEMMA WarmUpTypes == ASSUME TypeOK, NEW t \in Thread, WarmUp(t) PROVE TypeOK'
<1>0. /\ opened \in [Slot -> BOOLEAN] /\ status \in [Slot -> SUBSET {"detected", "configured"}]
      /\ pc \in [Thread -> {"idle", "lock", "get", "config", "warm", "cache", "part", "do"}]
  BY DEF TypeOK
<1>1. FileTypes'
  BY SameFiles DEF WarmUp
<1>2. \/ pc' = [pc EXCEPT ![t] = "cache"] /\ UNCHANGED <<opened, status>>
      \/ /\ pc' = [pc EXCEPT ![t] = "get"]
         /\ opened' = [opened EXCEPT ![at[t]] = FALSE] /\ status' = [status EXCEPT ![at[t]] = {}]
  BY DEF WarmUp
<1>3. opened' \in [Slot -> BOOLEAN]
  BY <1>0, <1>2, ExceptType
<1>4. status' \in [Slot -> SUBSET {"detected", "configured"}]
  BY <1>0, <1>2, ExceptType
<1>5. pc' \in [Thread -> {"idle", "lock", "get", "config", "warm", "cache", "part", "do"}]
  BY <1>0, <1>2, ExceptType
<1>6. UNCHANGED <<quiet, present, devId, cache, removing, mount, lock, call, unit, at, vol>>
  BY DEF WarmUp
<1>7. DeviceTypes' /\ CallTypes'
  BY <1>3, <1>4, <1>5, <1>6, Zenon DEF DeviceTypes, CallTypes, TypeOK
<1> QED BY <1>1, <1>7, PartsNext
\* MakeCache.
LEMMA MakeCacheTypes == ASSUME TypeOK, NEW t \in Thread, MakeCache(t) PROVE TypeOK'
<1> USE DEF TypeOK
<1>1. FileTypes'
  BY SameFiles DEF MakeCache
<1>2. PICK made \in BOOLEAN : /\ cache' = [cache EXCEPT ![at[t]] = made]
                              /\ pc' = [pc EXCEPT ![t] = IF made THEN "part" ELSE "get"]
  BY DEF MakeCache
<1>3. cache' \in [Slot -> BOOLEAN]
  BY <1>2, ExceptType
<1>4. pc' \in [Thread -> {"idle", "lock", "get", "config", "warm", "cache", "part", "do"}]
  BY <1>2, ExceptType
<1>5. UNCHANGED <<quiet, present, devId, status, opened, removing, mount, lock, call, unit, at, vol>>
  BY DEF MakeCache
<1>6. DeviceTypes' /\ CallTypes'
  BY <1>3, <1>4, <1>5, Zenon DEF DeviceTypes, CallTypes
<1> QED BY <1>1, <1>6, PartsNext

\* MountParts.
LEMMA MountPartsTypes == ASSUME TypeOK, NEW t \in Thread, MountParts(t) PROVE TypeOK'
<1>1. FileTypes'
  BY SameFiles DEF MountParts
<1>2. UNCHANGED <<quiet, present, devId, status, opened, cache, removing>>
  BY DEF MountParts, slots
<1>3. PICK n \in 0 .. IF cache[at[t]] THEN MaxParts ELSE 0 :
        LET free == {d \in Drive : mount[d] = 0}
            first == {d \in free : Cardinality({e \in free : e < d}) < n}
        IN  /\ mount' = [d \in Drive |-> IF d \in first THEN at[t] ELSE mount[d]]
            /\ IF first = {} THEN Return(t)
               ELSE /\ pc' = [pc EXCEPT ![t] = "get"] /\ at' = [at EXCEPT ![t] = 0]
                    /\ UNCHANGED <<lock, call, unit, vol>>
  BY DEF MountParts
<1> DEFINE first == {d \in {d \in Drive : mount[d] = 0} : Cardinality({e \in {d2 \in Drive : mount[d2] = 0} : e < d}) < n}
<1>4. mount' = [d \in Drive |-> IF d \in first THEN at[t] ELSE mount[d]]
  BY <1>3
<1> HIDE DEF first
<1>5. mount' \in [Drive -> {0} \cup Slot]
  BY <1>4 DEF TypeOK
<1>6. DeviceTypes'
  BY <1>2, <1>5, Zenon DEF DeviceTypes, TypeOK
<1>7. CASE Return(t)
  BY <1>1, <1>6, <1>7, ReturnTypes, PartsNext
<1>8. CASE /\ pc' = [pc EXCEPT ![t] = "get"] /\ at' = [at EXCEPT ![t] = 0]
           /\ UNCHANGED <<lock, call, unit, vol>>
  <2>1. CallTypes'
    BY <1>8, ExceptType DEF CallTypes, TypeOK
  <2> QED BY <1>1, <1>6, <2>1, PartsNext
<1> QED BY <1>3, <1>7, <1>8, Zenon

\* What the kinds of calls carry.
LEMMA Kinds ==
  ASSUME NEW c \in Call
  PROVE  /\ c.kind = "open" => c.name \in Name /\ c.write \in BOOLEAN
         /\ c.kind = "remove" => c.name \in Name
BY DEF Call

\* fs_open takes a free slot for its file, or changes nothing.
LEMMA OpenDoes ==
  ASSUME NEW t, NEW c, NEW create, Open(t, c, create)
  PROVE  \/ UNCHANGED files
         \/ \E r \in Rec : /\ rec[r] = None /\ ~Busy(c.name, c.write)
                           /\ rec' = [rec EXCEPT ![r] = [name |-> c.name, write |-> c.write]]
                           /\ fd' = [fd EXCEPT ![t] = r]
                           /\ file' = file \cup {FileOf[c.name]}
<1> DEFINE free == {r \in Rec : rec[r] = None}
           there == FileOf[c.name] \in file \/ (c.write /\ create)
<1>1. free \in SUBSET Nat
  BY MassAssumption DEF Rec
<1>2. free # {} => Least(free) \in free
  BY <1>1, LeastIn
<1>3. CASE Busy(c.name, c.write) \/ free = {} \/ ~there
  BY <1>3, Zenon DEF Open
<1>4. CASE ~Busy(c.name, c.write) /\ free # {} /\ there
  <2>1. /\ rec' = [rec EXCEPT ![Least(free)] = [name |-> c.name, write |-> c.write]]
        /\ fd' = [fd EXCEPT ![t] = Least(free)] /\ file' = file \cup {FileOf[c.name]}
    BY <1>4, Zenon DEF Open
  <2> QED BY <1>2, <1>4, <2>1, Zenon
<1> QED BY <1>3, <1>4, Zenon

\* What Do does to the files.
LEMMA DoDoes ==
  ASSUME NEW t \in Thread, Do(t)
  PROVE  \/ UNCHANGED files
         \/ call[t].kind = "open" /\ \E create \in BOOLEAN : Open(t, call[t], create)
         \/ call[t].kind = "remove" /\ Remove(call[t])
<1>1. CASE call[t].kind = "open"
  BY <1>1, Zenon DEF Do
<1>2. CASE call[t].kind = "remove"
  BY <1>2 DEF Do
<1>3. CASE call[t].kind \notin {"open", "remove"}
  BY <1>3 DEF Do
<1> QED BY <1>1, <1>2, <1>3

\* Do.
LEMMA DoTypes == ASSUME TypeOK, NEW t \in Thread, Do(t) PROVE TypeOK'
<1>0. /\ rec \in [Rec -> {None} \cup [name : Name, write : BOOLEAN]]
      /\ fd \in [Thread -> {0} \cup Rec] /\ file \subseteq Name /\ call[t] \in Call
  BY DEF TypeOK
<1>1. DeviceTypes' /\ CallTypes'
  BY SameDevice, ReturnTypes DEF Do, slots
<1>2. CASE UNCHANGED files
  BY <1>1, <1>2, SameFiles, PartsNext
<1>3. ASSUME call[t].kind = "open", NEW create \in BOOLEAN, Open(t, call[t], create) PROVE TypeOK'
  <2>1. ASSUME NEW r \in Rec, rec' = [rec EXCEPT ![r] = [name |-> call[t].name, write |-> call[t].write]],
               fd' = [fd EXCEPT ![t] = r], file' = file \cup {FileOf[call[t].name]}
        PROVE  FileTypes'
    <3>1. call[t].name \in Name /\ call[t].write \in BOOLEAN
      BY <1>0, <1>3, Kinds, Zenon
    <3>2. [name |-> call[t].name, write |-> call[t].write] \in [name : Name, write : BOOLEAN]
      BY <3>1, Zenon
    <3>3. rec' \in [Rec -> {None} \cup [name : Name, write : BOOLEAN]]
      BY <1>0, <2>1, <3>2, ExceptType
    <3>4. fd' \in [Thread -> {0} \cup Rec]
      BY <1>0, <2>1, ExceptType
    <3>5. file' \subseteq Name
      BY <1>0, <2>1, <3>1, MassAssumption
    <3> QED BY <3>3, <3>4, <3>5 DEF FileTypes
  <2>2. FileTypes'
    BY <1>3, <2>1, OpenDoes, SameFiles, Zenon
  <2> QED BY <1>1, <2>2, PartsNext
<1>4. CASE call[t].kind = "remove" /\ Remove(call[t])
  <2>1. file' \subseteq Name /\ UNCHANGED <<rec, fd>>
    BY <1>0, <1>4 DEF Remove
  <2>2. FileTypes'
    BY <1>0, <2>1 DEF FileTypes
  <2> QED BY <1>1, <2>2, PartsNext
<1> QED BY <1>2, <1>3, <1>4, DoDoes

\* Every step keeps the types.
LEMMA TypesStep == TypeOK /\ [Next]_vars => TypeOK'
<1> SUFFICES ASSUME TypeOK, [Next]_vars PROVE TypeOK'  OBVIOUS
<1>1. CASE UNCHANGED vars
  BY <1>1, Zenon DEF vars, slots, calls, files, TypeOK
<1>2. CASE \E d \in Dev : Connect(d) \/ Disconnect(d)
  BY <1>2, UsbTypes
<1>3. CASE UsbStep
  BY <1>3, UsbTypes
<1>4. ASSUME NEW t \in Thread, Begin(t) \/ Lock(t) \/ CallStep(t) PROVE TypeOK'
  BY <1>4, BeginTypes, LockTypes, GetDataTypes, WarmUpTypes, ConfigureTypes, MakeCacheTypes, MountPartsTypes, DoTypes DEF CallStep
<1> QED BY <1>1, <1>2, <1>3, <1>4 DEF Next

\* The variables of the USB driver's thread, of the file system and of its files stay in
\* their domains, for any number of devices, drives, files and threads (usbhdfsd).
THEOREM MassTypes == Spec => []TypeOK
BY TypesStart, TypesStep, PTL DEF Spec

-----------------------------------------------------------------------------
(* Slots *)

\* mass_stor_connect takes a free slot, and only for a device that has none.
LEMMA ConnectOnce ==
  ASSUME TypeOK, NEW d \in Dev, Connect(d)
  PROVE  \/ UNCHANGED devId
         \/ /\ \A s \in Slot : devId[s] # d
            /\ \E s \in Slot : devId' = [devId EXCEPT ![s] = d]
<1> DEFINE s == Find(d, TRUE)
           has == {x \in Slot : devId[x] = d}
<1>1. s \in {0} \cup Slot
  BY FindGives
<1>2. has # {} => s \in has
  <2>1. has \in SUBSET Nat
    BY MassAssumption DEF Slot
  <2>2. has # {} => s = Least(has)
    BY Zenon DEF Find
  <2> HIDE DEF s, has
  <2> QED BY <2>1, <2>2, LeastIn
<1>3. MayTake(s, d) => s # 0 /\ devId[s] = None
  BY DEF MayTake
<1>4. UNCHANGED devId \/ (MayTake(s, d) /\ devId' = [devId EXCEPT ![s] = d])
  BY Zenon DEF Connect, slots
<1>5. None # d
  BY MassAssumption
<1> HIDE DEF s
<1> QED BY <1>1, <1>2, <1>3, <1>4, <1>5

\* A step keeps one slot for a device.
LEMMA SlotsStep == TypeOK /\ SlotPerDevice /\ [Next]_vars => SlotPerDevice'
<1> SUFFICES ASSUME TypeOK, SlotPerDevice, [Next]_vars PROVE SlotPerDevice'  OBVIOUS
<1>1. \/ UNCHANGED devId
      \/ \E d \in Dev : Connect(d)
      \/ Free
  BY DEF Next, UsbStep, CallStep, Disconnect, Unmount, Kill, Begin, Lock, GetData, Configure, WarmUp, MakeCache,
         MountParts, Do, slots, vars
<1>2. CASE UNCHANGED devId
  BY <1>2 DEF SlotPerDevice
<1>3. ASSUME NEW d \in Dev, Connect(d) PROVE SlotPerDevice'
  <2>1. ASSUME NEW s \in Slot, devId' = [devId EXCEPT ![s] = d], \A x \in Slot : devId[x] # d
        PROVE  SlotPerDevice'
    BY <2>1 DEF SlotPerDevice, TypeOK
  <2> QED BY <1>2, <1>3, <2>1, ConnectOnce
<1>4. CASE Free
  <2>1. devId' = [devId EXCEPT ![removing[1]] = None]
    BY <1>4 DEF Free
  <2> QED BY <2>1 DEF SlotPerDevice, TypeOK
<1> QED BY <1>1, <1>2, <1>3, <1>4

\* A device has one slot at most, in whatever order devices come, fail and go
\* (mass_stor_findDevice, mass_stor_connect, mass_stor_disconnect).
THEOREM OneSlot == Spec => []SlotPerDevice
<1>1. Init => SlotPerDevice
  BY DEF Init, SlotPerDevice
<1> QED BY <1>1, TypesStart, TypesStep, SlotsStep, PTL DEF Spec

-----------------------------------------------------------------------------
(* Files *)

\* What a step does to the files: a slot given back, a file opened, or deleted.
LEMMA FilesDo ==
  ASSUME TypeOK, [Next]_vars
  PROVE  \/ UNCHANGED <<rec, file>>
         \/ file' = file /\ \E r : rec' = [rec EXCEPT ![r] = None]
         \/ \E r \in Rec, c \in Call :
              /\ c.kind = "open" /\ rec[r] = None /\ ~Busy(c.name, c.write)
              /\ rec' = [rec EXCEPT ![r] = [name |-> c.name, write |-> c.write]]
              /\ file' = file \cup {FileOf[c.name]}
         \/ \E c \in Call : c.kind = "remove" /\ Remove(c)
<1>1. CASE UNCHANGED files
  BY <1>1 DEF files
<1>2. CASE \E t \in Thread : Lock(t)
  BY <1>2 DEF Lock
<1>3. ASSUME NEW t \in Thread, Do(t)
      PROVE  \/ UNCHANGED files
             \/ \E r \in Rec, c \in Call :
                  /\ c.kind = "open" /\ rec[r] = None /\ ~Busy(c.name, c.write)
                  /\ rec' = [rec EXCEPT ![r] = [name |-> c.name, write |-> c.write]]
                  /\ file' = file \cup {FileOf[c.name]}
             \/ \E c \in Call : c.kind = "remove" /\ Remove(c)
  <2>1. call[t] \in Call
    BY DEF TypeOK
  <2>2. ASSUME call[t].kind = "open", NEW create \in BOOLEAN, Open(t, call[t], create)
        PROVE  \/ UNCHANGED files
               \/ \E r \in Rec, c \in Call :
                    /\ c.kind = "open" /\ rec[r] = None /\ ~Busy(c.name, c.write)
                    /\ rec' = [rec EXCEPT ![r] = [name |-> c.name, write |-> c.write]]
                    /\ file' = file \cup {FileOf[c.name]}
    <3> DEFINE c == call[t]
    <3>1. \/ UNCHANGED files
          \/ \E r \in Rec : /\ rec[r] = None /\ ~Busy(c.name, c.write)
                            /\ rec' = [rec EXCEPT ![r] = [name |-> c.name, write |-> c.write]]
                            /\ fd' = [fd EXCEPT ![t] = r]
                            /\ file' = file \cup {FileOf[c.name]}
      BY <2>2, OpenDoes, Zenon
    <3>2. c \in Call /\ c.kind = "open"
      BY <2>1, <2>2
    <3> HIDE DEF c
    <3> QED BY <3>1, <3>2, Zenon
  <2> QED BY <1>3, <2>1, <2>2, DoDoes, Zenon
<1>4. \/ UNCHANGED files
      \/ \E t \in Thread : Lock(t)
      \/ \E t \in Thread : Do(t)
  BY DEF Next, UsbStep, CallStep, Connect, Disconnect, Unmount, Kill, Free, Begin, GetData, Configure, WarmUp, MakeCache,
         MountParts, vars
<1> QED BY <1>1, <1>2, <1>3, <1>4

\* A step keeps the writers of files with one name apart, and these files there while they
\* are open.
LEMMA FilesStep ==
  ASSUME TypeOK, WriterExclusive, OpenFileKept, [Next]_vars
  PROVE  WriterExclusive' /\ OpenFileKept'
<1>0. rec \in [Rec -> {None} \cup [name : Name, write : BOOLEAN]]
  BY DEF TypeOK
<1>1. CASE UNCHANGED <<rec, file>>
  BY <1>1 DEF WriterExclusive, OpenFileKept
<1>2. ASSUME NEW r, file' = file, rec' = [rec EXCEPT ![r] = None]
      PROVE  WriterExclusive' /\ OpenFileKept'
  BY <1>0, <1>2 DEF WriterExclusive, OpenFileKept
<1>3. ASSUME NEW r \in Rec, NEW c \in Call, c.kind = "open", rec[r] = None, ~Busy(c.name, c.write),
             rec' = [rec EXCEPT ![r] = [name |-> c.name, write |-> c.write]],
             file' = file \cup {FileOf[c.name]}
      PROVE  WriterExclusive' /\ OpenFileKept'
  <2>1. c.name \in Name /\ c.write \in BOOLEAN
    BY <1>3, Kinds, Zenon
  <2>2. \A q \in Rec : rec[q] # None => rec[q].name \in Name
    BY <1>0
  <2>3. ASSUME NEW q \in Rec, rec[q] # None, FileOf[rec[q].name] = FileOf[c.name],
               c.name \in Own \/ rec[q].name \in Own
        PROVE  ~c.write /\ ~rec[q].write
    <3>1. ListedAs[rec[q].name] = c.name
      BY <2>1, <2>2, <2>3 DEF Own
    <3>2. q \in SlotsNamed(c.name)
      BY <2>3, <3>1 DEF SlotsNamed
    <3> QED BY <1>3, <3>2, Zenon DEF Busy
  <2>4. /\ \A q \in Rec \ {r} : rec'[q] = rec[q]
        /\ rec'[r].name = c.name /\ (rec'[r].write <=> c.write)
    BY <1>0, <1>3, <2>1
  <2>5. OpenFileKept'
    BY <1>3, <2>4 DEF OpenFileKept
  <2>6. WriterExclusive'
    <3> SUFFICES ASSUME NEW a \in Rec, NEW b \in Rec, a # b, rec'[a] # None, rec'[b] # None, rec'[a].write,
                        rec'[a].name \in Own
                 PROVE  FileOf[rec'[a].name] # FileOf[rec'[b].name]
      BY DEF WriterExclusive
    <3>1. CASE a = r
      BY <2>3, <2>4, <3>1
    <3>2. CASE b = r
      BY <2>3, <2>4, <3>2
    <3>3. CASE a # r /\ b # r
      BY <2>4, <3>3 DEF WriterExclusive
    <3> QED BY <3>1, <3>2, <3>3
  <2> QED BY <2>5, <2>6
<1>4. ASSUME NEW c \in Call, c.kind = "remove", Remove(c)
      PROVE  WriterExclusive' /\ OpenFileKept'
  <2>1. c.name \in Name /\ UNCHANGED rec
    BY <1>4, Kinds, Zenon DEF Remove
  <2>2. ASSUME NEW q \in Rec, rec[q] # None, rec[q].name \in Own PROVE FileOf[rec[q].name] \in file'
    <3>1. rec[q].name \in Name /\ FileOf[rec[q].name] \in file
      BY <1>0, <2>2 DEF OpenFileKept
    <3>2. CASE SlotsNamed(c.name) # {}
      BY <1>4, <3>1, <3>2 DEF Remove
    <3>3. CASE SlotsNamed(c.name) = {}
      <4>1. ListedAs[rec[q].name] # c.name
        BY <2>2, <3>3 DEF SlotsNamed
      <4>2. FileOf[rec[q].name] # FileOf[c.name]
        BY <2>1, <2>2, <3>1, <4>1 DEF Own
      <4> QED BY <1>4, <3>1, <3>3, <4>2 DEF Remove
    <3> QED BY <3>2, <3>3
  <2> QED BY <2>1, <2>2 DEF WriterExclusive, OpenFileKept
<1> QED BY <1>1, <1>2, <1>3, <1>4, FilesDo

\* A file with one name that is open for writing is open once, and one that is open is not
\* deleted, though devices come and go between the calls (fs_open, fs_findFileSlotByName,
\* fs_remove).
LEMMA FilesApart == Spec => [](WriterExclusive /\ OpenFileKept)
<1>1. Init => WriterExclusive /\ OpenFileKept
  BY DEF Init, WriterExclusive, OpenFileKept
<1>2. TypeOK /\ WriterExclusive /\ OpenFileKept /\ [Next]_vars => (WriterExclusive /\ OpenFileKept)'
  BY FilesStep
<1> QED BY <1>1, <1>2, TypesStart, TypesStep, PTL DEF Spec

\* A file that every thread calls by the name of its directory entry, a file of the root
\* directory, is open once if it is open for writing, and is not deleted while it is open,
\* whatever other files have that name in their directories (fs_open, fs_remove).
THEOREM FilesAreHeld == Spec => []FilesHeld
BY FilesApart, PTL DEF FilesHeld

-----------------------------------------------------------------------------
(* Mounts *)

\* The n smallest of some drives are n at most.
LEMMA FirstFew ==
  ASSUME NEW S \in SUBSET Drive, NEW n \in Nat
  PROVE  Cardinality({d \in S : Cardinality({e \in S : e < d}) < n}) <= n
<1> DEFINE below(d) == {e \in S : e < d}
           first == {d \in S : Cardinality(below(d)) < n}
           above == {k \in Nat : \A d \in first : d <= k}
<1>1. NumDrives \in Nat /\ Drive = 1 .. NumDrives  BY MassAssumption DEF Drive
<1>2. IsFiniteSet(S) /\ S \subseteq Nat
  <2>1. IsFiniteSet(Drive)  BY <1>1, FS_Interval
  <2>2. IsFiniteSet(S)  BY <2>1, FS_Subset
  <2>3. S \subseteq Nat  BY <1>1
  <2> QED BY <2>2, <2>3
<1>3. CASE first = {}
  <2>1. Cardinality(first) = 0  BY <1>3, FS_EmptySet
  <2> QED BY <2>1
<1>4. CASE first # {}
  <2> DEFINE m == Least(above)
  <2>1. above \in SUBSET Nat /\ NumDrives \in above  BY <1>1
  <2>2. m \in above /\ \A k \in above : m <= k
    <3> HIDE DEF above
    <3> QED BY <2>1, LeastIn
  <2>3. m \in first
    <3> HIDE DEF first, m
    <3>1. SUFFICES ASSUME m \notin first PROVE FALSE  OBVIOUS
    <3>2. PICK d \in first : TRUE  BY <1>4
    <3>3. first \subseteq Nat  BY <1>2 DEF first
    <3>4. \A x \in first : x <= m - 1  BY <2>2, <3>1, <3>3
    <3>5. d >= 1 /\ m - 1 \in Nat  BY <1>1, <2>2, <3>2, <3>4 DEF first
    <3>6. m - 1 \in above  BY <3>4, <3>5
    <3> QED BY <2>2, <3>6
  <2>4. m \in S /\ Cardinality(below(m)) < n  BY <2>3
  <2>5. IsFiniteSet(below(m)) /\ Cardinality(below(m)) \in Nat
    BY <1>2, FS_Subset, FS_CardinalityType
  <2>6. first \subseteq below(m) \cup {m}
    <3> HIDE DEF m
    <3> SUFFICES ASSUME NEW x \in first PROVE x \in below(m) \cup {m}  OBVIOUS
    <3>1. x \in S /\ x \in Nat /\ m \in Nat /\ x <= m  BY <1>2, <2>2
    <3> QED BY <3>1
  <2>7. /\ IsFiniteSet(below(m) \cup {m})
        /\ Cardinality(below(m) \cup {m}) <= Cardinality(below(m)) + 1
    <3> DEFINE B == below(m)
    <3>1. m \notin B
      <4> HIDE DEF m
      <4>1. m \in Nat  BY <1>2, <2>4
      <4> QED BY <4>1
    <3>2. IsFiniteSet(B) /\ Cardinality(B) \in Nat  BY <2>5
    <3> HIDE DEF B, m
    <3>3. IsFiniteSet(B \cup {m}) /\ Cardinality(B \cup {m}) = Cardinality(B) + 1
      BY <3>1, <3>2, FS_AddElement
    <3>4. IsFiniteSet(B \cup {m}) /\ Cardinality(B \cup {m}) <= Cardinality(B) + 1
      BY <3>2, <3>3
    <3> QED BY <3>4 DEF B
  <2>8. Cardinality(first) <= Cardinality(below(m) \cup {m}) /\ Cardinality(first) \in Nat
    <3> HIDE DEF first, below, m
    <3> QED BY <2>6, <2>7, FS_Subset, FS_CardinalityType
  <2>9. Cardinality(below(m) \cup {m}) \in Nat  BY <2>7, FS_CardinalityType
  <2> QED BY <2>4, <2>5, <2>7, <2>8, <2>9
<1> QED BY <1>3, <1>4

\* A slot whose device is marked as detected is that of a device that is there; a removal
\* has cleared the mark of its slot, and a call may only have set the other one since.
Known ==
  /\ \A s \in Slot :
       /\ opened[s] <=> "detected" \in status[s]
       /\ "detected" \in status[s] => devId[s] \in present
       /\ status[s] # {} /\ devId[s] # None => "detected" \in status[s] \/ removing[1] = s
  /\ removing[1] # 0 => "detected" \notin status[removing[1]]

\* The slot that a call is going to mark as configured.
Waiting ==
  \A t \in Thread : pc[t] = "config" =>
    /\ at[t] \in Slot
    /\ devId[at[t]] # None => "detected" \in status[at[t]] \/ removing[1] = at[t]

\* The semaphore of the file system; a call and a removal keep each other out.
InCall(t) == pc[t] \notin {"idle", "lock"}
Locked == /\ \A t \in Thread : InCall(t) => lock = t
          /\ quiet /\ lock # None => removing[1] = 0

\* A cache belongs to a device that is set up, or is about to be dropped.
CacheKept == \A s \in Slot : cache[s] => \/ "configured" \in status[s]
                                         \/ removing[1] = s /\ removing[2] # "free"

\* A drive is on a device that is set up, or is about to be unmounted.
DriveKept ==
  \A d \in Drive : mount[d] # 0 =>
     \/ "configured" \in status[mount[d]] /\ cache[mount[d]]
     \/ removing[1] = mount[d] /\ removing[2] = "unmount"

\* Between calls, a device that is set up has also been detected.
Marked == \A s \in Slot : status[s] # {} => "detected" \in status[s]

\* The device that a call is setting up has no drive yet.
SetUp ==
  \A t \in Thread : pc[t] \in {"config", "warm", "cache", "part"} =>
     /\ at[t] \in Slot /\ "detected" \in status[at[t]]
     /\ pc[t] # "config" => "configured" \in status[at[t]]
     /\ \A d \in Drive : mount[d] # at[t]
     /\ pc[t] \in {"config", "warm"} => ~cache[at[t]]
     /\ pc[t] = "part" => cache[at[t]]

MountedOnce == \A s \in Slot : Cardinality({d \in Drive : mount[d] = s}) <= MaxParts

\* mass_stor_findDevice finds the slot of a device that has one.
LEMMA FindsIt ==
  ASSUME SlotPerDevice, NEW d \in Dev, NEW s \in Slot, devId[s] = d
  PROVE  Find(d, FALSE) = s
<1> DEFINE has == {x \in Slot : devId[x] = d}
<1>1. has \in SUBSET Nat /\ has # {}
  BY MassAssumption DEF Slot
<1>2. Find(d, FALSE) = Least(has)
  BY <1>1, Zenon DEF Find
<1>3. Least(has) \in has
  <2> HIDE DEF has
  <2> QED BY <1>1, LeastIn
<1>4. d # None  BY MassAssumption
<1> QED BY <1>2, <1>3, <1>4 DEF SlotPerDevice

\* The slots, the devices that are there and the removal under way.
LEMMA KnownStep ==
  ASSUME TypeOK, SlotPerDevice, Known, Waiting, [Next]_vars
  PROVE  Known'
<1>0. /\ devId \in [Slot -> Dev \cup {None}] /\ status \in [Slot -> SUBSET {"detected", "configured"}]
      /\ opened \in [Slot -> BOOLEAN] /\ 0 \notin Slot
      /\ removing \in {<<0, "none">>} \cup (Slot \X {"unmount", "kill", "free"})
  BY DEF TypeOK, Slot
<1>1. ASSUME UNCHANGED <<present, devId, opened, status>>,
             removing'[1] = removing[1]
      PROVE  Known'
  BY <1>1 DEF Known
<1>2. ASSUME NEW d \in Dev, Connect(d) PROVE Known'
  <2> DEFINE s == Find(d, TRUE)
  <2>1. s \in {0} \cup Slot  BY FindGives
  <2> HIDE DEF s
  <2>2. removing[1] = 0 /\ UNCHANGED removing /\ present' = present \cup {d}
    BY <1>2 DEF Connect
  <2>3. \/ /\ s \in Slot /\ devId' = [devId EXCEPT ![s] = d]
           /\ status' = [status EXCEPT ![s] = {"detected"}]
           /\ opened' = [opened EXCEPT ![s] = TRUE]
        \/ /\ s \in Slot /\ devId[s] = None
           /\ status' = [status EXCEPT ![s] = {}] /\ UNCHANGED <<devId, opened>>
        \/ UNCHANGED <<devId, status, opened>>
    BY <1>2, <2>1, Zenon DEF Connect, MayTake, s, slots
  <2>4. None \notin present  BY MassAssumption DEF TypeOK
  <2> QED BY <1>0, <2>2, <2>3, <2>4 DEF Known
<1>3. ASSUME NEW d \in Dev, Disconnect(d) PROVE Known'
  <2> DEFINE s == Find(d, FALSE)
  <2>1. s \in {0} \cup Slot /\ \A x \in Slot : devId[x] = d => x = s
    BY FindGives, FindsIt
  <2> HIDE DEF s
  <2>2. UNCHANGED devId /\ present' = present \ {d} /\ removing[1] = 0
    BY <1>3 DEF Disconnect
  <2>3. CASE s # 0 /\ "detected" \in status[s]
    <3>1. /\ opened' = [opened EXCEPT ![s] = FALSE] /\ status' = [status EXCEPT ![s] = {}]
          /\ removing' = <<s, "unmount">>
      BY <1>3, <2>3, Zenon DEF Disconnect, s
    <3> QED BY <1>0, <2>1, <2>2, <2>3, <3>1 DEF Known
  <2>4. CASE ~(s # 0 /\ "detected" \in status[s])
    <3>1. UNCHANGED <<opened, status, removing>>
      BY <1>3, <2>4, Zenon DEF Disconnect, s
    <3> QED BY <1>0, <2>1, <2>2, <2>4, <3>1 DEF Known
  <2> QED BY <2>3, <2>4
<1>4. CASE Unmount \/ Kill
  BY <1>1, <1>4 DEF Unmount, Kill, slots
<1>5. CASE Free
  <2>1. /\ devId' = [devId EXCEPT ![removing[1]] = None] /\ removing' = <<0, "none">>
        /\ removing[1] # 0 /\ UNCHANGED <<present, status, opened>>
    BY <1>0, <1>5 DEF Free
  <2> QED BY <1>0, <2>1 DEF Known
<1>6. ASSUME NEW t \in Thread, Configure(t) PROVE Known'
  <2>1. /\ UNCHANGED <<present, devId, opened, removing>> /\ pc[t] = "config"
        /\ status' = [status EXCEPT ![at[t]] = status[at[t]] \cup {"configured"}]
    BY <1>6 DEF Configure
  <2> QED BY <1>0, <2>1 DEF Known, Waiting
<1>7. ASSUME NEW t \in Thread, WarmUp(t) PROVE Known'
  <2>1. UNCHANGED <<present, devId, removing>>
        /\ \/ UNCHANGED <<opened, status>>
           \/ /\ opened' = [opened EXCEPT ![at[t]] = FALSE]
              /\ status' = [status EXCEPT ![at[t]] = {}]
    BY <1>7 DEF WarmUp
  <2> QED BY <1>0, <2>1 DEF Known
<1>8. CASE UNCHANGED <<present, devId, opened, status, removing>>
  BY <1>1, <1>8
<1> QED
  BY <1>2, <1>3, <1>4, <1>5, <1>6, <1>7, <1>8
     DEF Next, UsbStep, CallStep, Begin, Lock, GetData, MakeCache, MountParts, Do, slots, vars

\* The semaphore: the steps of a call are those of its holder.
LEMMA LockedStep ==
  ASSUME TypeOK, Locked, [Next]_vars
  PROVE  Locked'
<1>0. /\ pc \in [Thread -> {"idle", "lock", "get", "config", "warm", "cache", "part", "do"}]
      /\ None \notin Thread
  BY MassAssumption DEF TypeOK
<1>1. ASSUME UNCHANGED <<quiet, lock, pc>>, quiet /\ lock # None => removing'[1] = 0 PROVE Locked'
  BY <1>1, Zenon DEF Locked, InCall
<1>2. CASE \E d \in Dev : Connect(d) \/ Disconnect(d)
  BY <1>1, <1>2 DEF Connect, Disconnect, calls, Locked
<1>3. CASE UsbStep
  <2>1. removing[2] # "none" /\ UNCHANGED <<quiet, lock, pc>>
    BY <1>3 DEF UsbStep, Unmount, Kill, Free, calls
  <2>2. removing[1] # 0  BY <2>1 DEF TypeOK, Slot
  <2> QED BY <1>1, <2>1, <2>2 DEF Locked
<1>4. ASSUME NEW t \in Thread, Begin(t) \/ Lock(t) PROVE Locked'
  <2>1. CASE Begin(t)
    BY <1>0, <2>1 DEF Begin, Locked, InCall
  <2>2. CASE Lock(t)
    BY <1>0, <2>2 DEF Lock, Locked, InCall
  <2> QED BY <1>4, <2>1, <2>2
<1>5. ASSUME NEW t \in Thread, CallStep(t) PROVE Locked'
  <2>1. InCall(t) /\ UNCHANGED <<quiet, removing>>
    BY <1>5 DEF CallStep, GetData, Configure, WarmUp, MakeCache, MountParts, Do, InCall
  <2>2. \/ lock' = lock /\ \E s : pc' = [pc EXCEPT ![t] = s]
        \/ lock' = None /\ pc' = [pc EXCEPT ![t] = "idle"]
    <3>1. CASE GetData(t)
      BY <3>1, Zenon DEF GetData, Return
    <3>2. CASE Configure(t) \/ WarmUp(t) \/ MakeCache(t)
      BY <3>2 DEF Configure, WarmUp, MakeCache
    <3>3. CASE MountParts(t)
      BY <3>3, Zenon DEF MountParts, Return
    <3>4. CASE Do(t)
      BY <3>4, Zenon DEF Do, Return
    <3> QED BY <1>5, <3>1, <3>2, <3>3, <3>4 DEF CallStep
  <2> QED BY <1>0, <2>1, <2>2 DEF Locked, InCall
<1>6. CASE UNCHANGED vars
  BY <1>1, <1>6 DEF vars, calls, Locked
<1> QED BY <1>2, <1>3, <1>4, <1>5, <1>6 DEF Next

\* The call that is setting up a device is alone, and chose a slot that was in use.
LEMMA WaitingStep ==
  ASSUME TypeOK, Known, Locked, Waiting, [Next]_vars
  PROVE  Waiting'
<1>0. /\ pc \in [Thread -> {"idle", "lock", "get", "config", "warm", "cache", "part", "do"}]
      /\ at \in [Thread -> {0} \cup Slot] /\ devId \in [Slot -> Dev \cup {None}]
      /\ status \in [Slot -> SUBSET {"detected", "configured"}] /\ 0 \notin Slot
  BY DEF TypeOK, Slot
<1>1. CASE UNCHANGED <<pc, at, devId, status, removing>>
  BY <1>1 DEF Waiting
<1>2. ASSUME NEW d \in Dev, Connect(d) PROVE Waiting'
  <2> DEFINE s == Find(d, TRUE)
  <2>1. \/ /\ devId' = [devId EXCEPT ![s] = d] /\ status' = [status EXCEPT ![s] = {"detected"}]
        \/ devId[s] = None /\ UNCHANGED devId /\ status' = [status EXCEPT ![s] = {}]
        \/ UNCHANGED <<devId, status>>
    BY <1>2, Zenon DEF Connect, MayTake, slots
  <2>2. UNCHANGED <<pc, at, removing>>  BY <1>2 DEF Connect, calls
  <2> HIDE DEF s
  <2> QED BY <1>0, <2>1, <2>2 DEF Waiting
<1>3. ASSUME NEW d \in Dev, Disconnect(d) PROVE Waiting'
  <2> DEFINE s == Find(d, FALSE)
  <2>1. \/ status' = [status EXCEPT ![s] = {}] /\ removing' = <<s, "unmount">>
        \/ UNCHANGED <<status, removing>>
    BY <1>3, Zenon DEF Disconnect
  <2>2. UNCHANGED <<pc, at, devId>> /\ removing[1] = 0  BY <1>3 DEF Disconnect, calls
  <2> HIDE DEF s
  <2> QED BY <1>0, <2>1, <2>2 DEF Waiting
<1>4. CASE UsbStep
  <2>1. /\ UNCHANGED <<pc, at, status>>
        /\ \/ UNCHANGED devId /\ removing'[1] = removing[1]
           \/ devId' = [devId EXCEPT ![removing[1]] = None]
    BY <1>4 DEF UsbStep, Unmount, Kill, Free, calls, slots
  <2> QED BY <1>0, <2>1 DEF Waiting
<1>5. ASSUME NEW t \in Thread, Begin(t) \/ Lock(t) PROVE Waiting'
  <2>1. /\ UNCHANGED <<devId, status, removing>>
        /\ \/ pc' = [pc EXCEPT ![t] = "lock"] /\ UNCHANGED at
           \/ pc' = [pc EXCEPT ![t] = "get"] /\ at' = [at EXCEPT ![t] = 0]
    BY <1>5 DEF Begin, Lock, slots
  <2> QED BY <1>0, <2>1 DEF Waiting
<1>6. ASSUME NEW t \in Thread, CallStep(t) PROVE Waiting'
  <2>1. \A u \in Thread \ {t} : pc[u] # "config"
    <3>1. InCall(t)
      BY <1>6 DEF CallStep, GetData, Configure, WarmUp, MakeCache, MountParts, Do, InCall
    <3> QED BY <3>1 DEF Locked, InCall
  <2>2. UNCHANGED <<devId, removing>>
    BY <1>6 DEF CallStep, GetData, Configure, WarmUp, MakeCache, MountParts, Do, slots
  <2>3. \/ \E p : p # "config" /\ pc' = [pc EXCEPT ![t] = p]
        \/ \E s \in Slot : /\ "detected" \in status[s] /\ UNCHANGED status
                           /\ at' = [at EXCEPT ![t] = s] /\ pc' = [pc EXCEPT ![t] = "config"]
    <3>1. CASE GetData(t)
      <4>1. Unconfigured(t) \in SUBSET Nat
            /\ \A s \in Unconfigured(t) : s \in Slot /\ "detected" \in status[s]
        BY MassAssumption DEF Unconfigured, Slot
      <4>2. CASE Unconfigured(t) # {}
        <5>1. Least(Unconfigured(t)) \in Unconfigured(t)  BY <4>1, <4>2, LeastIn
        <5>2. UNCHANGED status  BY <3>1 DEF GetData, slots
        <5>3. "do" # "config"  OBVIOUS
        <5> QED BY <3>1, <4>1, <4>2, <5>1, <5>2, <5>3, Zenon DEF GetData
      <4>3. CASE Unconfigured(t) = {}
        <5>1. "do" # "config" /\ "idle" # "config"  OBVIOUS
        <5> QED BY <3>1, <4>3, <5>1, Zenon DEF GetData, Return
      <4> QED BY <4>2, <4>3
    <3>2. CASE Configure(t) \/ WarmUp(t) \/ MakeCache(t)
      BY <3>2 DEF Configure, WarmUp, MakeCache
    <3>3. CASE MountParts(t) \/ Do(t)
      <4>1. "get" # "config" /\ "idle" # "config"  OBVIOUS
      <4> QED BY <3>3, <4>1, Zenon DEF MountParts, Do, Return
    <3> QED BY <1>6, <3>1, <3>2, <3>3 DEF CallStep
  <2>4. at'[t] \in Slot \/ pc'[t] # "config"
    BY <1>0, <2>3
  <2>5. \A u \in Thread \ {t} : pc'[u] # "config"
    BY <1>0, <2>1, <2>3
  <2>6. pc'[t] = "config" => "detected" \in status'[at'[t]] /\ at'[t] \in Slot
    BY <1>0, <2>3
  <2> QED BY <2>5, <2>6 DEF Waiting
<1>7. CASE UNCHANGED vars
  BY <1>1, <1>7 DEF vars, slots, calls
<1> QED BY <1>2, <1>3, <1>4, <1>5, <1>6, <1>7 DEF Next

\* What the lemmas on mounts use of the types.
MountTypes ==
  /\ devId \in [Slot -> Dev \cup {None}] /\ status \in [Slot -> SUBSET {"detected", "configured"}]
  /\ cache \in [Slot -> BOOLEAN] /\ mount \in [Drive -> {0} \cup Slot] /\ 0 \notin Slot
  /\ removing \in {<<0, "none">>} \cup (Slot \X {"unmount", "kill", "free"})
  /\ pc \in [Thread -> {"idle", "lock", "get", "config", "warm", "cache", "part", "do"}]
  /\ at \in [Thread -> {0} \cup Slot]
Mounts == CacheKept /\ DriveKept /\ Marked /\ SetUp /\ MountedOnce

\* They follow from the types.
LEMMA MountTyping == TypeOK => MountTypes
BY DEF TypeOK, MountTypes, Slot

\* The USB driver's thread, while no call is under way: a device that goes loses its
\* drives, then its cache, then its slot.
LEMMA MountsUsb ==
  ASSUME TypeOK, SlotPerDevice, Known, Locked, quiet, Mounts,
         UsbStep \/ \E d \in Dev : Connect(d) \/ Disconnect(d)
  PROVE  Mounts'
<1>0. MountTypes /\ UNCHANGED <<pc, at>>
  BY MountTyping DEF UsbStep, Connect, Disconnect, Unmount, Kill, Free, calls
<1>1. ASSUME NEW d \in Dev, Connect(d) PROVE Mounts'
  <2> DEFINE s == Find(d, TRUE)
  <2>1. s \in {0} \cup Slot  BY FindGives
  <2> HIDE DEF s
  <2>2. UNCHANGED <<cache, mount, removing>>
    BY <1>1, Zenon DEF Connect, slots
  <2>3. \/ /\ s \in Slot /\ devId[s] = None
           /\ \/ status' = [status EXCEPT ![s] = {"detected"}]
              \/ status' = [status EXCEPT ![s] = {}]
        \/ UNCHANGED status
    BY <1>1, <2>1, Zenon DEF Connect, MayTake, s, slots
  <2>4. /\ \A x \in Slot : "configured" \in status[x] => "configured" \in status'[x]
        /\ \A x \in Slot : "detected" \in status[x] => "detected" \in status'[x]
        /\ Marked'
    <3>1. \A x \in Slot : status[x] # {} => devId[x] # None
      BY MassAssumption DEF Known, TypeOK, Mounts, Marked
    <3> QED BY <1>0, <2>3, <3>1 DEF MountTypes, Mounts, Marked
  <2> QED
    BY <1>0, <2>2, <2>4 DEF Mounts, CacheKept, DriveKept, Marked, SetUp, MountedOnce, MountTypes
<1>2. ASSUME NEW d \in Dev, Disconnect(d) PROVE Mounts'
  <2> DEFINE s == Find(d, FALSE)
  <2>1. s \in {0} \cup Slot  BY FindGives
  <2> HIDE DEF s
  <2>2. UNCHANGED <<cache, mount>> /\ removing[1] = 0 /\ lock = None
    BY <1>2 DEF Disconnect
  <2>3. \/ /\ s # 0 /\ status' = [status EXCEPT ![s] = {}]
           /\ removing' = <<s, "unmount">>
        \/ UNCHANGED <<status, removing>>
    BY <1>2, Zenon DEF Disconnect, s
  <2>4. \A t \in Thread : pc[t] \notin {"config", "warm", "cache", "part"}
    BY <2>2, MassAssumption DEF Locked, InCall
  <2>5. CacheKept'
    BY <1>0, <2>1, <2>2, <2>3 DEF Mounts, CacheKept, MountTypes
  <2>6. DriveKept'
    BY <1>0, <2>1, <2>2, <2>3 DEF Mounts, DriveKept, MountTypes
  <2> QED
    BY <1>0, <2>2, <2>3, <2>4, <2>5, <2>6 DEF Mounts, Marked, SetUp, MountedOnce, MountTypes
<1>3. CASE UsbStep
  <2>1. removing[1] \in Slot /\ lock = None /\ status[removing[1]] = {}
    <3>1. removing[2] # "none"  BY <1>3 DEF UsbStep, Unmount, Kill, Free
    <3>2. removing[1] \in Slot  BY <1>0, <3>1 DEF MountTypes
    <3> QED BY <1>0, <3>2 DEF Locked, Known, Mounts, Marked, MountTypes
  <2>2. \A t \in Thread : pc[t] \notin {"config", "warm", "cache", "part"}
    BY <2>1, MassAssumption DEF Locked, InCall
  <2>3. SetUp'  BY <1>0, <2>2 DEF SetUp
  <2>4. CASE Unmount
    <3>1. /\ mount' = [d \in Drive |-> IF mount[d] = removing[1] THEN 0 ELSE mount[d]]
          /\ removing[2] = "unmount" /\ removing' = <<removing[1], "kill">>
          /\ UNCHANGED <<status, cache>>
      BY <2>4 DEF Unmount, slots
    <3>2. CacheKept' /\ DriveKept'
      BY <1>0, <2>1, <3>1 DEF Mounts, CacheKept, DriveKept, MountTypes
    <3>3. ASSUME NEW s \in Slot PROVE Cardinality({d \in Drive : mount'[d] = s}) <= MaxParts
      <4>1. CASE s = removing[1]
        <5>1. {d \in Drive : mount'[d] = s} = {}  BY <1>0, <3>1, <4>1 DEF MountTypes
        <5> QED BY <5>1, FS_EmptySet, MassAssumption
      <4>2. CASE s # removing[1]
        <5>1. {d \in Drive : mount'[d] = s} = {d \in Drive : mount[d] = s}
          BY <1>0, <3>1, <4>2 DEF MountTypes
        <5> QED BY <5>1 DEF Mounts, MountedOnce
      <4> QED BY <4>1, <4>2
    <3> QED BY <2>3, <3>1, <3>2, <3>3 DEF Mounts, Marked, MountedOnce
  <2>5. CASE Kill
    <3>1. /\ cache' = [cache EXCEPT ![removing[1]] = FALSE] /\ removing[2] = "kill"
          /\ removing' = <<removing[1], "free">> /\ UNCHANGED <<status, mount>>
      BY <2>5 DEF Kill
    <3> QED
      BY <1>0, <2>1, <2>3, <3>1 DEF Mounts, CacheKept, DriveKept, Marked, MountedOnce, MountTypes
  <2>6. CASE Free
    <3>1. removing[2] = "free" /\ removing' = <<0, "none">> /\ UNCHANGED <<status, cache, mount>>
      BY <2>6 DEF Free
    <3> QED
      BY <1>0, <2>1, <2>3, <3>1 DEF Mounts, CacheKept, DriveKept, Marked, MountedOnce, MountTypes
  <2> QED BY <1>3, <2>4, <2>5, <2>6 DEF UsbStep
<1> QED BY <1>1, <1>2, <1>3

\* A call, while no device is removed: a device it sets up has no drive until its
\* partitions are mounted, and these are MaxParts at most.
LEMMA MountsCall ==
  ASSUME TypeOK, Known, Locked, quiet, Mounts, NEW t \in Thread, CallStep(t)
  PROVE  Mounts'
<1>0. MountTypes /\ MaxParts \in Nat  BY MountTyping, MassAssumption
<1>1. /\ removing[1] = 0 /\ UNCHANGED removing
      /\ \A u \in Thread \ {t} : pc[u] \in {"idle", "lock"}
  <2>1. InCall(t) /\ UNCHANGED removing
    BY DEF CallStep, GetData, Configure, WarmUp, MakeCache, MountParts, Do, InCall
  <2>2. lock = t  BY <2>1 DEF Locked
  <2> QED BY <2>1, <2>2, MassAssumption DEF Locked, InCall
<1>2. ASSUME UNCHANGED <<status, cache, mount>>,
             pc' = [pc EXCEPT ![t] = "idle"] \/ pc' = [pc EXCEPT ![t] = "do"] PROVE Mounts'
  BY <1>0, <1>1, <1>2
     DEF Mounts, CacheKept, DriveKept, Marked, SetUp, MountedOnce, MountTypes
<1>3. CASE GetData(t)
  <2>1. UNCHANGED <<status, cache, mount>>  BY <1>3 DEF GetData, slots
  <2>2. \/ pc' = [pc EXCEPT ![t] = "idle"] \/ pc' = [pc EXCEPT ![t] = "do"]
        \/ \E s \in Slot : /\ "configured" \notin status[s] /\ "detected" \in status[s]
                          /\ at' = [at EXCEPT ![t] = s] /\ pc' = [pc EXCEPT ![t] = "config"]
    <3>1. Unconfigured(t) \in SUBSET Nat
          /\ \A s \in Unconfigured(t) : /\ s \in Slot /\ "configured" \notin status[s]
                                        /\ "detected" \in status[s]
      BY MassAssumption DEF Unconfigured, Slot
    <3>2. CASE Unconfigured(t) # {}
      <4>1. Least(Unconfigured(t)) \in Unconfigured(t)  BY <3>1, <3>2, LeastIn
      <4> QED BY <1>3, <3>1, <3>2, <4>1, Zenon DEF GetData
    <3>3. CASE Unconfigured(t) = {}
      BY <1>3, <3>3, Zenon DEF GetData, Return
    <3> QED BY <3>2, <3>3
  <2>3. ASSUME NEW s \in Slot, "configured" \notin status[s], "detected" \in status[s],
               at' = [at EXCEPT ![t] = s], pc' = [pc EXCEPT ![t] = "config"]
        PROVE  Mounts'
    <3>1. ~cache[s] /\ \A d \in Drive : mount[d] # s
      BY <1>0, <1>1, <2>3 DEF Mounts, CacheKept, DriveKept, MountTypes
    <3>2. CacheKept' /\ DriveKept' /\ Marked'
      BY <1>0, <1>1, <2>1 DEF Mounts, CacheKept, DriveKept, Marked, MountTypes
    <3>3. SetUp'
      BY <1>0, <1>1, <2>1, <2>3, <3>1 DEF SetUp, MountTypes
    <3> QED BY <2>1, <3>2, <3>3 DEF Mounts, MountedOnce
  <2> QED BY <1>2, <2>1, <2>2, <2>3
<1>8. CASE Configure(t)
  <2>1. /\ pc[t] = "config" /\ UNCHANGED <<cache, mount, at>>
        /\ status' = [status EXCEPT ![at[t]] = status[at[t]] \cup {"configured"}]
        /\ pc' = [pc EXCEPT ![t] = "warm"]
    BY <1>8 DEF Configure
  <2>2. /\ at[t] \in Slot /\ ~cache[at[t]] /\ "detected" \in status[at[t]]
        /\ \A d \in Drive : mount[d] # at[t]
    BY <2>1 DEF Mounts, SetUp
  <2>3. CacheKept' /\ DriveKept' /\ Marked'
    BY <1>0, <1>1, <2>1, <2>2 DEF Mounts, CacheKept, DriveKept, Marked, MountTypes
  <2>4. SetUp'
    BY <1>0, <1>1, <2>1, <2>2 DEF SetUp, MountTypes
  <2> QED BY <2>1, <2>3, <2>4 DEF Mounts, MountedOnce
<1>4. CASE WarmUp(t)
  <2>1. /\ pc[t] = "warm" /\ UNCHANGED <<cache, mount, at>>
        /\ \/ pc' = [pc EXCEPT ![t] = "cache"] /\ UNCHANGED status
           \/ pc' = [pc EXCEPT ![t] = "get"] /\ status' = [status EXCEPT ![at[t]] = {}]
    BY <1>4 DEF WarmUp
  <2>2. at[t] \in Slot /\ ~cache[at[t]] /\ \A d \in Drive : mount[d] # at[t]
    BY <2>1 DEF Mounts, SetUp
  <2> QED
    BY <1>0, <1>1, <2>1, <2>2
       DEF Mounts, CacheKept, DriveKept, Marked, SetUp, MountedOnce, MountTypes
<1>5. CASE MakeCache(t)
  <2>1. PICK made \in BOOLEAN : /\ cache' = [cache EXCEPT ![at[t]] = made]
                                /\ pc' = [pc EXCEPT ![t] = IF made THEN "part" ELSE "get"]
    BY <1>5 DEF MakeCache
  <2>2. pc[t] = "cache" /\ UNCHANGED <<status, mount, at>>  BY <1>5 DEF MakeCache
  <2>3. at[t] \in Slot /\ "configured" \in status[at[t]] /\ \A d \in Drive : mount[d] # at[t]
    BY <2>2 DEF Mounts, SetUp
  <2> QED
    BY <1>0, <1>1, <2>1, <2>2, <2>3
       DEF Mounts, CacheKept, DriveKept, Marked, SetUp, MountedOnce, MountTypes
<1>6. CASE MountParts(t)
  <2> DEFINE free == {d \in Drive : mount[d] = 0}
  <2>1. PICK n \in 0 .. IF cache[at[t]] THEN MaxParts ELSE 0 :
          LET first == {d \in free : Cardinality({e \in free : e < d}) < n}
          IN  /\ mount' = [d \in Drive |-> IF d \in first THEN at[t] ELSE mount[d]]
              /\ IF first = {} THEN Return(t)
                 ELSE /\ pc' = [pc EXCEPT ![t] = "get"] /\ at' = [at EXCEPT ![t] = 0]
                      /\ UNCHANGED <<lock, call, unit, vol>>
    BY <1>6 DEF MountParts
  <2> DEFINE first == {d \in free : Cardinality({e \in free : e < d}) < n}
  <2>2. /\ mount' = [d \in Drive |-> IF d \in first THEN at[t] ELSE mount[d]]
        /\ pc' = [pc EXCEPT ![t] = "idle"] \/ pc' = [pc EXCEPT ![t] = "get"]
    BY <2>1, Zenon DEF Return
  <2>3. first \subseteq Drive /\ (\A d \in first : mount[d] = 0) /\ Cardinality(first) <= n
    <3>1. free \in SUBSET Drive /\ n \in Nat  BY <1>0
    <3>2. Cardinality(first) <= n
      <4> HIDE DEF free
      <4> QED BY <3>1, FirstFew
    <3> QED BY <3>2
  <2> HIDE DEF first
  <2>4. UNCHANGED <<status, cache>> /\ pc[t] = "part"  BY <1>6 DEF MountParts, slots
  <2>5. /\ at[t] \in Slot /\ "configured" \in status[at[t]] /\ cache[at[t]]
        /\ \A d \in Drive : mount[d] # at[t]
    BY <2>4 DEF Mounts, SetUp
  <2>6. CacheKept' /\ DriveKept' /\ Marked' /\ SetUp'
    BY <1>0, <1>1, <2>2, <2>3, <2>4, <2>5
       DEF Mounts, CacheKept, DriveKept, Marked, SetUp, MountTypes
  <2>7. ASSUME NEW s \in Slot PROVE Cardinality({d \in Drive : mount'[d] = s}) <= MaxParts
    <3>1. CASE s = at[t]
      <4>1. {d \in Drive : mount'[d] = s} = first
        BY <1>0, <2>2, <2>3, <2>5, <3>1 DEF MountTypes
      <4>2. Cardinality(first) \in Nat
        <5>1. IsFiniteSet(Drive)  BY FS_Interval, MassAssumption DEF Drive
        <5>2. IsFiniteSet(first)  BY <2>3, <5>1, FS_Subset
        <5> QED BY <5>2, FS_CardinalityType
      <4> QED BY <1>0, <2>3, <4>1, <4>2
    <3>2. CASE s # at[t]
      <4>1. {d \in Drive : mount'[d] = s} = {d \in Drive : mount[d] = s}
        BY <1>0, <2>2, <2>3, <3>2 DEF MountTypes
      <4> QED BY <4>1 DEF Mounts, MountedOnce
    <3> QED BY <3>1, <3>2
  <2> QED BY <2>6, <2>7 DEF Mounts, MountedOnce
<1>7. CASE Do(t)
  BY <1>2, <1>7 DEF Do, Return, slots
<1> QED BY <1>3, <1>4, <1>5, <1>6, <1>7, <1>8 DEF CallStep

\* Every step keeps the mounts, if devices are only pulled out between calls.
LEMMA MountsStep ==
  ASSUME TypeOK, SlotPerDevice, Known, Locked, quiet => Mounts, [Next]_vars
  PROVE  quiet' => Mounts'
<1>1. quiet' = quiet
  BY DEF Next, UsbStep, CallStep, Connect, Disconnect, Unmount, Kill, Free, Begin, Lock, GetData,
         Configure, WarmUp, MakeCache, MountParts, Do, vars
<1> SUFFICES ASSUME quiet, Mounts PROVE Mounts'
  BY <1>1
<1>2. CASE UsbStep \/ \E d \in Dev : Connect(d) \/ Disconnect(d)
  BY <1>2, MountsUsb
<1>3. ASSUME NEW t \in Thread, CallStep(t) PROVE Mounts'
  BY <1>3, MountsCall
<1>4. ASSUME NEW t \in Thread, Begin(t) \/ Lock(t) PROVE Mounts'
  <2>1. /\ UNCHANGED <<removing, status, cache, mount>>
        /\ \/ at' = at /\ pc' = [pc EXCEPT ![t] = "lock"]
           \/ at' = [at EXCEPT ![t] = 0] /\ pc' = [pc EXCEPT ![t] = "get"]
    BY <1>4 DEF Begin, Lock, slots
  <2>2. MountTypes  BY MountTyping
  <2> QED
    BY <2>1, <2>2 DEF Mounts, CacheKept, DriveKept, Marked, SetUp, MountedOnce, MountTypes
<1>5. CASE UNCHANGED vars
  BY <1>5 DEF vars, slots, calls, Mounts, CacheKept, DriveKept, Marked, SetUp, MountedOnce
<1> QED BY <1>2, <1>3, <1>4, <1>5 DEF Next

\* A drive that fat_getData finds mounted is on a device that is attached, set up, open and
\* cached, a device is not mounted twice, and no slot stays with a device that has gone, for
\* any number of devices, drives and threads (mass_stor_connect, mass_stor_disconnect,
\* mass_stor_configureNextDevice, part_connect, fat_forceUnmount).
THEOREM MountsAreLive == Spec => []MountsLive
<1> DEFINE Inv == TypeOK /\ SlotPerDevice /\ Known /\ Waiting /\ Locked /\ (quiet => Mounts)
<1>1. Init => Inv
  <2> SUFFICES ASSUME Init PROVE Inv  OBVIOUS
  <2>1. TypeOK /\ SlotPerDevice  BY TypesStart DEF Init, SlotPerDevice
  <2>2. Known /\ Waiting /\ Locked  BY DEF Init, Known, Waiting, Locked, InCall
  <2>3. CacheKept /\ DriveKept /\ Marked /\ SetUp
    BY DEF Init, CacheKept, DriveKept, Marked, SetUp
  <2>4. ASSUME NEW s \in Slot PROVE Cardinality({d \in Drive : mount[d] = s}) <= MaxParts
    <3>1. {d \in Drive : mount[d] = s} = {}  BY DEF Init, Slot
    <3> QED BY <3>1, FS_EmptySet, MassAssumption
  <2> QED BY <2>1, <2>2, <2>3, <2>4 DEF Mounts, MountedOnce
<1>2. Inv /\ [Next]_vars => Inv'
  BY TypesStep, SlotsStep, KnownStep, WaitingStep, LockedStep, MountsStep
<1>3. Inv => MountsLive
  <2> SUFFICES ASSUME Inv PROVE MountsLive  OBVIOUS
  <2>0. MountTypes  BY MountTyping
  <2>1. SlotFreed
    BY <2>0 DEF SlotFreed, Known, Mounts, CacheKept, MountTypes
  <2>2. ASSUME quiet, removing[1] = 0, NEW d \in Drive, mount[d] # 0
        PROVE  /\ opened[mount[d]] /\ cache[mount[d]]
               /\ "configured" \in status[mount[d]] /\ devId[mount[d]] \in present
    <3>1. mount[d] \in Slot /\ "configured" \in status[mount[d]] /\ cache[mount[d]]
      BY <2>0, <2>2 DEF Mounts, DriveKept, MountTypes
    <3>2. "detected" \in status[mount[d]]  BY <2>2, <3>1 DEF Mounts, Marked
    <3> QED BY <3>1, <3>2 DEF Known
  <2> QED BY <2>1, <2>2, Zenon DEF MountsLive, Mounts, MountedOnce
<1> QED BY <1>1, <1>2, <1>3, PTL DEF Spec
=============================================================================
