------------------------------ MODULE UsbMass ------------------------------
(***************************************************************************)
(* The devices, drives and files of usbhdfsd.  The USB driver's thread     *)
(* calls mass_stor_connect and mass_stor_disconnect as devices come and go *)
(* and takes no lock; the threads of the file system hold its semaphore    *)
(* from the start to the end of a call, in which fat_getData may bring up  *)
(* new devices and mount their partitions.  The transfers are those of     *)
(* BulkOnly: here one succeeds, fails, or never ends once the endpoints    *)
(* are closed.                                                             *)
(***************************************************************************)
EXTENDS Integers, FiniteSets

CONSTANTS
  Dev,       \* the devices, named by the id the USB driver gives them
  NumSlots,  \* NUM_DEVICES
  NumDrives, \* NUM_DRIVES
  NumRecs,   \* MAX_FILES
  MaxParts,  \* partitions of a device that can be mounted
  Thread,    \* threads that use the file system, one descriptor each
  Name,      \* names of files
  FileOf,    \* the file a name leads to
  ListedAs,  \* the name of that file's directory entry
  None

ASSUME MassAssumption ==
  /\ {NumSlots, NumDrives, NumRecs, MaxParts} \subseteq Nat \ {0}
  /\ None \notin Dev \cup Thread
  /\ FileOf \in [Name -> Name] /\ ListedAs \in [Name -> Name]

Slot == 1 .. NumSlots
Drive == 1 .. NumDrives
Rec == 1 .. NumRecs
Call == [kind : {"open"}, name : Name, write : BOOLEAN]
        \cup [kind : {"remove"}, name : Name] \cup [kind : {"close", "other"}]

VARIABLES
  quiet,    \* are devices only pulled out while no call is under way?
  present,  \* the devices attached
  devId, status, opened, cache, \* g_mass_device: by slot
  removing, \* the slot mass_stor_disconnect is at, and its next step
  mount,    \* g_fatd: the slot a drive is on, or 0
  rec,      \* fsRec: what a slot is open on, or None
  fd,       \* the slot a thread's descriptor points to, or 0
  file,     \* the files there are
  lock,     \* the file system's semaphore: who holds it
  pc, call, \* where a thread is, in which call
  unit,     \* the drive it is for
  at,       \* the slot mass_stor_configureNextDevice has reached
  vol       \* the slot fat_getData has found

slots == <<devId, status, opened, cache>>
calls == <<pc, call, unit, at, vol>>
files == <<rec, fd, file>>
vars == <<quiet, present, slots, removing, mount, files, lock, calls>>

TypeOK ==
  /\ quiet \in BOOLEAN /\ present \subseteq Dev
  /\ devId \in [Slot -> Dev \cup {None}]
  /\ status \in [Slot -> SUBSET {"detected", "configured"}]
  /\ opened \in [Slot -> BOOLEAN] /\ cache \in [Slot -> BOOLEAN]
  /\ removing \in {<<0, "none">>} \cup (Slot \X {"unmount", "kill", "free"})
  /\ mount \in [Drive -> {0} \cup Slot]
  /\ rec \in [Rec -> {None} \cup [name : Name, write : BOOLEAN]]
  /\ fd \in [Thread -> {0} \cup Rec] /\ file \subseteq Name
  /\ lock \in Thread \cup {None}
  /\ pc \in [Thread -> {"idle", "lock", "get", "config", "warm", "cache", "part", "do"}]
  /\ call \in [Thread -> Call] /\ unit \in [Thread -> Drive]
  /\ at \in [Thread -> {0} \cup Slot] /\ vol \in [Thread -> {0} \cup Slot]

Init ==
  /\ quiet \in BOOLEAN /\ present = {}
  /\ devId = [s \in Slot |-> None] /\ status = [s \in Slot |-> {}]
  /\ opened = [s \in Slot |-> FALSE] /\ cache = [s \in Slot |-> FALSE]
  /\ removing = <<0, "none">>
  /\ mount = [d \in Drive |-> 0] /\ rec = [r \in Rec |-> None]
  /\ fd = [t \in Thread |-> 0] /\ file = {}
  /\ lock = None /\ pc = [t \in Thread |-> "idle"]
  /\ call = [t \in Thread |-> [kind |-> "other"]]
  /\ unit = [t \in Thread |-> 1]
  /\ at = [t \in Thread |-> 0] /\ vol = [t \in Thread |-> 0]

Least(S) == CHOOSE x \in S : \A y \in S : x <= y

(* The USB driver's thread. *)

\* mutant: the search ends at the first slot that will do
FindFirst(id, create) ==
  LET fits == {s \in Slot : devId[s] = id \/ (create /\ devId[s] = None)}
  IN  IF fits # {} THEN Least(fits) ELSE 0
\* mass_stor_findDevice(id, create)
Find(id, create) ==
  LET has == {s \in Slot : devId[s] = id}
      free == {s \in Slot : devId[s] = None}
  IN  IF has # {} THEN Least(has)
      ELSE IF create /\ free # {} THEN Least(free) ELSE 0

MayTake(s, id) == s # 0 /\ devId[s] = None

\* mass_stor_probe and mass_stor_connect; too few endpoints leave the slot free
Connect(id) ==
  /\ id \notin present /\ removing[1] = 0
  /\ present' = present \cup {id}
  /\ LET s == Find(id, TRUE)
     IN  IF MayTake(s, id)
         THEN \/ /\ devId' = [devId EXCEPT ![s] = id]
                 /\ status' = [status EXCEPT ![s] = {"detected"}]
                 /\ opened' = [opened EXCEPT ![s] = TRUE]
                 /\ UNCHANGED cache
              \/ /\ status' = [status EXCEPT ![s] = {}]
                 /\ UNCHANGED <<devId, opened, cache>>
         ELSE UNCHANGED slots
  /\ UNCHANGED <<quiet, removing, mount, files, lock, calls>>

\* mass_stor_disconnect, up to mass_stor_release
Disconnect(id) ==
  /\ id \in present /\ removing[1] = 0 /\ (quiet => lock = None)
  /\ present' = present \ {id}
  /\ LET s == Find(id, FALSE)
     IN  IF s # 0 /\ "detected" \in status[s]
         THEN /\ opened' = [opened EXCEPT ![s] = FALSE]
              /\ status' = [status EXCEPT ![s] = {}]
              /\ removing' = <<s, "unmount">>
         ELSE UNCHANGED <<opened, status, removing>>
  /\ UNCHANGED <<quiet, devId, cache, mount, files, lock, calls>>

\* mutant: only the first drive of the device is found
UnmountFirst ==
  LET s == removing[1]
      on == {d \in Drive : mount[d] = s}
  IN  /\ removing[2] = "unmount"
      /\ mount' = [d \in Drive |-> IF on # {} /\ d = Least(on) THEN 0 ELSE mount[d]]
      /\ removing' = <<s, "kill">>
      /\ UNCHANGED <<quiet, present, slots, files, lock, calls>>

\* part_disconnect: fat_forceUnmount
Unmount ==
  /\ removing[2] = "unmount"
  /\ mount' = [d \in Drive |-> IF mount[d] = removing[1] THEN 0 ELSE mount[d]]
  /\ removing' = <<removing[1], "kill">>
  /\ UNCHANGED <<quiet, present, slots, files, lock, calls>>

\* scache_kill, then the slot is free again
Kill ==
  /\ removing[2] = "kill"
  /\ cache' = [cache EXCEPT ![removing[1]] = FALSE]
  /\ removing' = <<removing[1], "free">>
  /\ UNCHANGED <<quiet, present, devId, status, opened, mount, files, lock, calls>>
Free ==
  /\ removing[2] = "free"
  /\ devId' = [devId EXCEPT ![removing[1]] = None]
  /\ removing' = <<0, "none">>
  /\ UNCHANGED <<quiet, present, status, opened, cache, mount, files, lock, calls>>

(* A call of the file system. *)

Begin(t) ==
  /\ pc[t] = "idle"
  /\ \E c \in Call, u \in Drive :
       /\ IF fd[t] # 0 THEN c.kind \in {"close", "other"} /\ u = unit[t]
                        ELSE c.kind \in {"open", "remove"}
       /\ call' = [call EXCEPT ![t] = c] /\ unit' = [unit EXCEPT ![t] = u]
  /\ pc' = [pc EXCEPT ![t] = "lock"]
  /\ UNCHANGED <<quiet, present, slots, removing, mount, files, lock, at, vol>>

\* _fs_lock; fs_close gives its slot of fsRec back before it looks at the drive
Lock(t) ==
  /\ pc[t] = "lock" /\ lock = None /\ (quiet => removing[1] = 0)
  /\ lock' = t
  /\ pc' = [pc EXCEPT ![t] = "get"] /\ at' = [at EXCEPT ![t] = 0]
  /\ IF call[t].kind = "close"
     THEN rec' = [rec EXCEPT ![fd[t]] = None] /\ fd' = [fd EXCEPT ![t] = 0]
     ELSE UNCHANGED <<rec, fd>>
  /\ UNCHANGED <<quiet, present, slots, removing, mount, file, call, unit, vol>>

\* _fs_unlock
Return(t) ==
  /\ lock' = None
  /\ pc' = [pc EXCEPT ![t] = "idle"] /\ call' = [call EXCEPT ![t] = [kind |-> "other"]]
  /\ at' = [at EXCEPT ![t] = 0] /\ vol' = [vol EXCEPT ![t] = 0]
  /\ unit' = [unit EXCEPT ![t] = IF fd'[t] = 0 THEN 1 ELSE unit[t]]

\* the devices mass_stor_configureNextDevice has still to set up
Unconfigured(t) ==
  {s \in Slot : s > at[t] /\ devId[s] # None /\ "detected" \in status[s]
                /\ "configured" \notin status[s]}

\* fat_getData: the drive is there, or a device is set up, or there is no device
GetData(t) ==
  /\ pc[t] = "get"
  /\ UNCHANGED files
  /\ IF at[t] = 0 /\ mount[unit[t]] # 0
     THEN /\ vol' = [vol EXCEPT ![t] = mount[unit[t]]]
          /\ pc' = [pc EXCEPT ![t] = "do"]
          /\ UNCHANGED <<at, lock, call, unit>>
     ELSE IF Unconfigured(t) # {}
          THEN LET s == Least(Unconfigured(t))
               IN  /\ at' = [at EXCEPT ![t] = s]
                   /\ pc' = [pc EXCEPT ![t] = "config"]
                   /\ UNCHANGED <<vol, lock, call, unit>>
          ELSE Return(t)
  /\ UNCHANGED <<quiet, present, slots, removing, mount>>

\* usb_set_configuration and usb_set_interface, which wait; then the slot is marked,
\* whatever device it has by now
Configure(t) ==
  /\ pc[t] = "config"
  /\ status' = [status EXCEPT ![at[t]] = status[at[t]] \cup {"configured"}]
  /\ pc' = [pc EXCEPT ![t] = "warm"]
  /\ UNCHANGED <<quiet, present, devId, opened, cache, removing, mount, files, lock, call,
                 unit, at, vol>>

\* mass_stor_warmup: a device that fails is released, and the next one is tried
WarmUp(t) ==
  /\ pc[t] = "warm"
  /\ \/ /\ opened[at[t]]
        /\ pc' = [pc EXCEPT ![t] = "cache"] /\ UNCHANGED <<opened, status>>
     \/ /\ pc' = [pc EXCEPT ![t] = "get"]
        /\ opened' = [opened EXCEPT ![at[t]] = FALSE]
        /\ status' = [status EXCEPT ![at[t]] = {}]
  /\ UNCHANGED <<quiet, present, devId, cache, removing, mount, files, lock, call, unit, at, vol>>

\* scache_init
MakeCache(t) ==
  /\ pc[t] = "cache"
  /\ \E made \in BOOLEAN :
       /\ cache' = [cache EXCEPT ![at[t]] = made]
       /\ pc' = [pc EXCEPT ![t] = IF made THEN "part" ELSE "get"]
  /\ UNCHANGED <<quiet, present, devId, status, opened, removing, mount, files, lock, call,
                 unit, at, vol>>

\* part_connect and fat_mount: the partitions take the first free drives; with
\* none mounted the search for devices ends; without a cache nothing can be read
MountParts(t) ==
  /\ pc[t] = "part" /\ (cache[at[t]] => opened[at[t]])
  /\ UNCHANGED files
  /\ \E n \in 0 .. IF cache[at[t]] THEN MaxParts ELSE 0 :
       LET free == {d \in Drive : mount[d] = 0}
           first == {d \in free : Cardinality({e \in free : e < d}) < n}
       IN  /\ mount' = [d \in Drive |-> IF d \in first THEN at[t] ELSE mount[d]]
           /\ IF first = {}
              THEN Return(t)
              ELSE /\ pc' = [pc EXCEPT ![t] = "get"] /\ at' = [at EXCEPT ![t] = 0]
                   /\ UNCHANGED <<lock, call, unit, vol>>
  /\ UNCHANGED <<quiet, present, slots, removing>>

\* fs_findFileSlotByName: the name is compared with those of directory entries
SlotsNamed(n) == {r \in Rec : rec[r] # None /\ ListedAs[rec[r].name] = n}

\* mutant: a file open for reading does not keep a writer out
BusyForReaders(n, write) == \E r \in SlotsNamed(n) : rec[r].write
\* fs_open: a file that is written has one descriptor
Busy(n, write) == \E r \in SlotsNamed(n) : write \/ rec[r].write

\* a file that is not there is only made for a writer that says O_CREAT
Open(t, c, create) ==
  LET free == {r \in Rec : rec[r] = None}
      there == FileOf[c.name] \in file \/ (c.write /\ create)
  IN  IF Busy(c.name, c.write) \/ free = {} \/ ~there
      THEN UNCHANGED files
      ELSE /\ rec' = [rec EXCEPT ![Least(free)] = [name |-> c.name, write |-> c.write]]
           /\ fd' = [fd EXCEPT ![t] = Least(free)]
           /\ file' = file \cup {FileOf[c.name]}

Remove(c) ==
  /\ file' = IF SlotsNamed(c.name) # {} THEN file ELSE file \ {FileOf[c.name]}
  /\ UNCHANGED <<rec, fd>>

\* the rest of the call, with the drive's device: a read that fails is tried again for
\* ever, but one without a cache fails at once
Do(t) ==
  /\ pc[t] = "do"
  /\ \/ /\ opened[vol[t]] /\ cache[vol[t]]
        /\ CASE call[t].kind = "open" -> \E create \in BOOLEAN : Open(t, call[t], create)
             [] call[t].kind = "remove" -> Remove(call[t])
             [] OTHER -> UNCHANGED files
     \/ ~cache[vol[t]] /\ UNCHANGED files
  /\ Return(t)
  /\ UNCHANGED <<quiet, present, slots, removing, mount>>

UsbStep == Unmount \/ Kill \/ Free
CallStep(t) ==
  GetData(t) \/ Configure(t) \/ WarmUp(t) \/ MakeCache(t) \/ MountParts(t) \/ Do(t)

Next ==
  \/ \E d \in Dev : Connect(d) \/ Disconnect(d)
  \/ UsbStep
  \/ \E t \in Thread : Begin(t) \/ Lock(t) \/ CallStep(t)

Spec == Init /\ [][Next]_vars
-----------------------------------------------------------------------------
\* A device has one slot at most, in whatever order devices come, fail and go
\* (mass_stor_findDevice and mass_stor_connect).
SlotPerDevice ==
  \A s, r \in Slot : devId[s] # None /\ devId[s] = devId[r] => s = r

\* No slot is leaked but by a device that failed to set up: once a device is
\* gone, its slot is free, or was released by the file system, not by its removal.
SlotFreed ==
  removing[1] = 0 =>
    \A s \in Slot : devId[s] # None /\ devId[s] \notin present =>
      status[s] = {} /\ ~opened[s] /\ (quiet => ~cache[s])

\* Slots are freed as SlotFreed says, and a drive is on a device that is there, set up, open and cached, and a device
\* is mounted once: fat_getData finds no drive of a device that is gone (removal
\* while no call is under way; see the hazards for the others).  With MaxParts drives or
\* fewer the last part says nothing; that a device is mounted once is in MountsAreLive.
MountsLive ==
  SlotFreed /\ (quiet /\ removing[1] = 0 =>
    /\ \A d \in Drive : mount[d] # 0 =>
         /\ opened[mount[d]] /\ cache[mount[d]]
         /\ "configured" \in status[mount[d]] /\ devId[mount[d]] \in present
    /\ \A s \in Slot : Cardinality({d \in Drive : mount[d] = s}) <= MaxParts)

\* The files that have one name, that of their directory entry: fs_findFileSlotByName
\* looks for the path it is given among the names of entries, and so finds nothing for a
\* file of a subdirectory, or one called by its short name or with a slash before it.
Own == {n \in Name : ListedAs[n] = n /\ \A m \in Name : FileOf[m] = FileOf[n] => m = n}

\* Such a file, open for writing, is open once, whatever devices come and go between the
\* calls (fs_open's checks, with descriptors that outlive a device).
WriterExclusive ==
  \A r, q \in Rec : r # q /\ rec[r] # None /\ rec[q] # None /\ rec[r].write
                    /\ rec[r].name \in Own =>
    FileOf[rec[r].name] # FileOf[rec[q].name]

\* Such a file, open, is not deleted: "file is opened - can't delete the file".
OpenFileKept ==
  \A r \in Rec : rec[r] # None /\ rec[r].name \in Own => FileOf[rec[r].name] \in file

\* What a descriptor of a file of the root directory stands for is there, and nobody else
\* writes it, if every thread calls the file by the name of its entry; files of
\* subdirectories with the same name may be open besides (fs_open, fs_remove).
FilesHeld == WriterExclusive /\ OpenFileKept

=============================================================================
