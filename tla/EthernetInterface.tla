-------------------------- MODULE EthernetInterface --------------------------
(***************************************************************************)
(* EthernetInterface.java: objects that are loaded from the ifcfg files of *)
(* a device and of its address bindings, edited, and saved over the files. *)
(* One thread makes all the calls; the process may end at any step of a    *)
(* save, which opens (and empties) one file after another.                 *)
(*                                                                         *)
(* A file goes by what follows "ifcfg-" in its name. Of its lines the      *)
(* model keeps DEVICE, which says where the object is saved and need not   *)
(* be the name of the file; DNS1 (for all the fields that are written if   *)
(* they are set), DNS2, the IPADDR of a binding, and whether there are     *)
(* lines without "=". Loading drops lines of a key it does not know from a *)
(* main file and keeps them in a binding's.                                *)
(***************************************************************************)
EXTENDS Integers, FiniteSets, SequencesExt

CONSTANTS
    Names,          \* names of devices and of address bindings
    IsBinding(_),   \* is there a ":" in the name
    Numbered(_, _), \* the name, ":" and the number
    StartsWith(_, _),   \* does the first name start with the second
    LastNum(_),     \* bound: the last number given after a name, -1 for none
    DeviceLines,    \* what the DEVICE lines of the files may be at first
    Addrs,          \* addresses
    NoAddr,
    Objects,        \* objects of the process
    MaxBindings     \* bound: bindings of an object

NoName == "none"

ASSUME InterfaceAssumption ==
    /\ IsFiniteSet(Names)
    /\ "null" \in Names /\ NoName \notin Names
    /\ \A name \in Names : StartsWith(name, name) /\ LastNum(name) \in Int
    /\ \A name \in Names : \A n \in 0 .. LastNum(name) :
          /\ Numbered(name, n) \in Names
          /\ \A start \in Names : StartsWith(name, start) => StartsWith(Numbered(name, n), start)
    /\ \A lines \in DeviceLines : \A name \in DOMAIN lines :
          name \in Names /\ lines[name] \in Names \union {NoName}
    /\ NoAddr \notin Addrs
    /\ MaxBindings \in Nat

VARIABLES
    files,      \* files[name]: what the file holds, or NoFile
    object,     \* object[o]: the fields of an object, or NoObject
    saving,     \* the save under way: its object, the number of the file, and
                \* whether the file is open
    wellNamed   \* wellNamed[o]: no file that begins like the device that o was
                \* asked for named another when o was loaded

vars == <<files, object, saving, wellNamed>>

NoFile == [exists |-> FALSE]
Empty == [exists |-> TRUE, device |-> NoName, addr |-> NoAddr,
          dns1 |-> FALSE, dns2 |-> FALSE, comment |-> FALSE]
Contents == [exists : {TRUE}, device : Names \union {NoName}, addr : Addrs \union {NoAddr},
             dns1 : BOOLEAN, dns2 : BOOLEAN, comment : BOOLEAN]

NoObject == [asked |-> NoName]
NoSave == [object |-> NoName, file |-> 0, open |-> FALSE]

\* "ifcfg-" + device, for a device that may be null.
FileOf(device) == IF device = NoName THEN "null" ELSE device

-----------------------------------------------------------------------------
(* What is read of a file, and what is written to it.                      *)

\* The main file: a line of an unknown key is dropped.
ReadMain(content) ==
    [device |-> content.device, dns1 |-> content.dns1, dns2 |-> content.dns2,
     comment |-> content.comment]

\* DEVICE is always written, as null if it must; DNS2 only after DNS1.
MainImage(main) ==
    [Empty EXCEPT !.device = FileOf(main.device), !.dns1 = main.dns1,
                  !.dns2 = main.dns1 /\ main.dns2, !.comment = main.comment]

\* The file of a binding: every line that is not a known key is kept.
ReadBinding(content) == [name |-> content.device, content |-> content, added |-> FALSE]

\* Everything but the DEVICE line is written again.
BindingImage(binding) == [binding.content EXCEPT !.device = NoName]

\* Faulty BindingFiles: whatever file has a ":" in its name.
AllBindingFiles(device) ==
    {name \in Names : IsBinding(name) /\ files[name].exists}

\* Those whose names only start with the device's: eth10:0 is one of eth1.
BindingFiles(device) ==
    {name \in Names : IsBinding(name) /\ StartsWith(name, device) /\ files[name].exists}

-----------------------------------------------------------------------------
\* The files as an administrator wrote them.
Init ==
    /\ \E lines \in DeviceLines :
          files = [name \in Names |->
                      IF name \in DOMAIN lines
                      THEN [Empty EXCEPT !.device = lines[name], !.dns1 = TRUE, !.dns2 = TRUE,
                                         !.comment = TRUE]
                      ELSE NoFile]
    /\ object = [o \in Objects |-> NoObject]
    /\ saving = NoSave
    /\ wellNamed = [o \in Objects |-> FALSE]

\* Every file whose name starts with the device's says a DEVICE that does, or none.
WellNamed(device) ==
    \A name \in Names : files[name].exists /\ StartsWith(name, device) =>
        files[name].device = NoName \/ StartsWith(files[name].device, device)

\* new EthernetInterface(device), of whatever name with no ":" has a file
\* (getEthernetInterfaces takes them all). The files come in any order.
Load(o) ==
    /\ saving = NoSave
    /\ \E device \in Names :
          /\ ~IsBinding(device)
          /\ files[device].exists
          /\ \E order \in SetToAllKPermutations(BindingFiles(device)) :
                /\ Len(order) <= MaxBindings
                /\ ToSet(order) = BindingFiles(device)
                /\ object' = [object EXCEPT ![o] =
                       [asked |-> device,
                        main |-> ReadMain(files[device]),
                        bindings |-> [i \in DOMAIN order |-> ReadBinding(files[order[i]])]]]
          /\ wellNamed' = [wellNamed EXCEPT ![o] = WellNamed(device)]
    /\ UNCHANGED <<files, saving>>

Loaded(o) == saving = NoSave /\ object[o] # NoObject

\* The setters.
EditMain(o) ==
    /\ Loaded(o)
    /\ \E dns1, dns2 \in BOOLEAN :
          object' = [object EXCEPT ![o].main.dns1 = dns1, ![o].main.dns2 = dns2]
    /\ UNCHANGED <<files, saving, wellNamed>>

EditBinding(o) ==
    /\ Loaded(o)
    /\ \E i \in DOMAIN object[o].bindings, addr \in Addrs :
          object' = [object EXCEPT ![o].bindings[i].content.addr = addr]
    /\ UNCHANGED <<files, saving, wellNamed>>

\* The first number for which there is no file.
Free(device, n) == \A m \in 0 .. n : files[Numbered(device, m)].exists <=> m < n

AddAddressBinding(o) ==
    /\ Loaded(o)
    /\ Len(object[o].bindings) < MaxBindings
    /\ LET device == FileOf(object[o].main.device) IN
       \E n \in 0 .. LastNum(device), addr \in Addrs :
          /\ Free(device, n)
          /\ object' = [object EXCEPT ![o].bindings = Append(@,
                 [name |-> Numbered(device, n), content |-> [Empty EXCEPT !.addr = addr],
                  added |-> TRUE])]
    /\ UNCHANGED <<files, saving, wellNamed>>

\* Only a binding that the object has added knows its parent; down() of another
\* ends in a NullPointerException.
Down(o) ==
    /\ Loaded(o)
    /\ \E i \in DOMAIN object[o].bindings :
          /\ object[o].bindings[i].added
          /\ object' = [object EXCEPT ![o].bindings = RemoveAt(@, i)]
          /\ files' = [files EXCEPT ![object[o].bindings[i].name] = NoFile]
    /\ UNCHANGED <<saving, wellNamed>>

-----------------------------------------------------------------------------
(* save(): the main file, then the file of each binding.                   *)

\* The file that is written next, and what to.
Target(o, file) ==
    IF file = 0 THEN FileOf(object[o].main.device) ELSE FileOf(object[o].bindings[file].name)

Image(o, file) ==
    IF file = 0 THEN MainImage(object[o].main) ELSE BindingImage(object[o].bindings[file])

\* A file is opened, and emptied by that.
Open(o, file) ==
    /\ saving' = [object |-> o, file |-> file, open |-> TRUE]
    /\ files' = [files EXCEPT ![Target(o, file)] = Empty]
    /\ UNCHANGED <<object, wellNamed>>

SaveOpen(o) ==
    \/ Loaded(o) /\ Open(o, 0)
    \/ saving # NoSave /\ saving.object = o /\ ~saving.open /\ Open(o, saving.file)

\* Faulty Following: the last binding is left out.
FollowingButOne(o, file) ==
    IF file + 1 >= Len(object[o].bindings) THEN NoSave
    ELSE [object |-> o, file |-> file + 1, open |-> FALSE]

Following(o, file) ==
    IF file = Len(object[o].bindings) THEN NoSave
    ELSE [object |-> o, file |-> file + 1, open |-> FALSE]

\* The lines are written and the file is closed.
SaveWrite(o) ==
    /\ saving # NoSave
    /\ saving.object = o
    /\ saving.open
    /\ files' = [files EXCEPT ![Target(o, saving.file)] = Image(o, saving.file)]
    /\ saving' = Following(o, saving.file)
    /\ UNCHANGED <<object, wellNamed>>

\* A file cannot be opened: the rest is left as it is.
SaveFails ==
    /\ saving # NoSave
    /\ ~saving.open
    /\ saving' = NoSave
    /\ UNCHANGED <<files, object, wellNamed>>

\* The process ends.
Crash ==
    /\ saving' = NoSave
    /\ object' = [o \in Objects |-> NoObject]
    /\ wellNamed' = [o \in Objects |-> FALSE]
    /\ UNCHANGED files

Next ==
    \/ \E o \in Objects :
          \/ Load(o) \/ EditMain(o) \/ EditBinding(o) \/ AddAddressBinding(o) \/ Down(o)
          \/ SaveOpen(o) \/ SaveWrite(o)
    \/ SaveFails \/ Crash

Spec == Init /\ [][Next]_vars

-----------------------------------------------------------------------------
(* Properties.                                                             *)

Bindings == [name : Names \union {NoName}, content : Contents, added : BOOLEAN]

TypeOK ==
    /\ files \in [Names -> Contents \union {NoFile}]
    /\ \A o \in Objects : object[o] # NoObject =>
          /\ object[o].asked \in Names
          /\ object[o].main.device \in Names \union {NoName}
          /\ object[o].bindings \in Seq(Bindings)
    /\ saving # NoSave =>
          /\ saving.object \in Objects
          /\ object[saving.object] # NoObject
          /\ saving.file \in 0 .. Len(object[saving.object].bindings)
    /\ wellNamed \in [Objects -> BOOLEAN]

\* An object whose files were well named when it was loaded changes only files
\* whose names start with its device's, or with null: whatever it is edited to,
\* whatever the files of other devices say, and whatever crashes and saves of
\* other objects have made of the files before.
StaysWithDevice ==
    [][\A o \in Objects, name \in Names :
          /\ Down(o) \/ SaveOpen(o) \/ SaveWrite(o)
          /\ wellNamed[o]
          /\ files'[name] # files[name]
          => StartsWith(name, object[o].asked) \/ StartsWith(name, "null")]_vars

\* When a save comes to its end, each file that it was to write holds the last
\* of what the object has to go there: only the parts that share the name of a
\* later one, or have none either, are not on the disk.
SavedMeansWritten ==
    [][\A o \in Objects : SaveWrite(o) /\ saving' = NoSave =>
          \A i \in 0 .. Len(object[o].bindings) :
              (\A j \in (i + 1) .. Len(object[o].bindings) : Target(o, j) # Target(o, i)) =>
                  files'[Target(o, i)] = Image(o, i)]_vars
=============================================================================
