--------------------------- MODULE ConfigFilesProofs ---------------------------
(***************************************************************************)
(* What is proved of the two objects of araqne-linux-api that are read     *)
(* from configuration files, edited and saved over them: the ifcfg files   *)
(* of an EthernetInterface and the resolv.conf of a DnsConfig.             *)
(***************************************************************************)
EXTENDS EthernetInterface, DnsConfig, TLAPS, SequenceTheorems, FiniteSetTheorems,
        WellFoundedInduction

-----------------------------------------------------------------------------
(* Numbers and sequences.                                                  *)

\* RemoveAt leaves the other elements in their order.
LEMMA RemoveAtProperties ==
    ASSUME NEW S, NEW s \in Seq(S), NEW i \in 1 .. Len(s)
    PROVE  /\ RemoveAt(s, i) \in Seq(S)
           /\ Len(RemoveAt(s, i)) = Len(s) - 1
           /\ \A j \in 1 .. (Len(s) - 1) : RemoveAt(s, i)[j] = s[IF j < i THEN j ELSE j + 1]
<1> DEFINE a == SubSeq(s, 1, i - 1)
           b == SubSeq(s, i + 1, Len(s))
<1>1. Len(s) \in Nat /\ i \in Nat /\ 1 <= i /\ i <= Len(s)
  BY LenProperties
<1>2. \A j \in 1 .. Len(s) : s[j] \in S
  BY ElementOfSeq
<1>3. /\ a \in Seq(S) /\ Len(a) = i - 1
      /\ \A j \in 1 .. (i - 1) : a[j] = s[j]
  <2>1. \A j \in 1 .. (i - 1) : s[j] \in S
    BY <1>1, <1>2
  <2>2. /\ a \in Seq(S)
        /\ Len(a) = IF 1 <= i - 1 THEN (i - 1) - 1 + 1 ELSE 0
        /\ \A j \in 1 .. ((i - 1) - 1 + 1) : a[j] = s[1 + j - 1]
    BY <1>1, <2>1, SubSeqProperties
  <2>3. QED
    BY <1>1, <2>2
<1>4. /\ b \in Seq(S) /\ Len(b) = Len(s) - i
      /\ \A j \in 1 .. (Len(s) - i) : b[j] = s[i + j]
  <2>1. \A j \in (i + 1) .. Len(s) : s[j] \in S
    BY <1>1, <1>2
  <2>2. /\ b \in Seq(S)
        /\ Len(b) = IF i + 1 <= Len(s) THEN Len(s) - (i + 1) + 1 ELSE 0
        /\ \A j \in 1 .. (Len(s) - (i + 1) + 1) : b[j] = s[i + 1 + j - 1]
    BY <1>1, <2>1, SubSeqProperties
  <2>3. QED
    BY <1>1, <2>2
<1>5. RemoveAt(s, i) = a \o b
  BY DEF RemoveAt
<1> HIDE DEF a, b
<1>6. /\ a \o b \in Seq(S) /\ Len(a \o b) = Len(a) + Len(b)
      /\ \A j \in 1 .. (Len(a) + Len(b)) : (a \o b)[j] = IF j <= Len(a) THEN a[j] ELSE b[j - Len(a)]
  BY <1>3, <1>4, ConcatProperties
<1>7. ASSUME NEW j \in 1 .. (Len(s) - 1)
      PROVE  (a \o b)[j] = s[IF j < i THEN j ELSE j + 1]
  <2>1. CASE j < i
    BY <1>1, <1>3, <1>4, <1>6, <2>1
  <2>2. CASE ~(j < i)
    <3>1. j - (i - 1) \in 1 .. (Len(s) - i) /\ i + (j - (i - 1)) = j + 1
      BY <1>1, <2>2
    <3>2. (a \o b)[j] = b[j - (i - 1)]
      BY <1>1, <1>3, <1>4, <1>6, <2>2
    <3>3. QED
      BY <1>4, <2>2, <3>1, <3>2
  <2>3. QED
    BY <2>1, <2>2
<1>8. QED
  BY <1>1, <1>3, <1>4, <1>5, <1>6, <1>7

\* A set of numbers that has 0 and each number's successor has them all.
LEMMA Induction ==
    ASSUME NEW S, 0 \in S, \A n \in Nat : n \in S => n + 1 \in S
    PROVE  Nat \subseteq S
<1> DEFINE T == Nat \ S
<1> SUFFICES ASSUME T # {} PROVE FALSE
  OBVIOUS
<1>1. \E x \in T : \A y \in T : ~(<<y, x>> \in OpToRel(<, Nat))
  <2>1. T \subseteq Nat
    OBVIOUS
  <2> HIDE DEF T
  <2>2. QED
    BY <2>1, NatLessThanWellFounded, WFMin
<1>2. PICK x \in T : \A y \in T : ~(<<y, x>> \in OpToRel(<, Nat))
  BY <1>1
<1>3. x \in Nat /\ x # 0 /\ x - 1 \in Nat /\ (x - 1) + 1 = x /\ x - 1 < x
  OBVIOUS
<1>4. x - 1 \in T
  BY <1>2, <1>3
<1>5. <<x - 1, x>> \in OpToRel(<, Nat)
  BY <1>3 DEF OpToRel
<1>6. QED
  BY <1>2, <1>4, <1>5

\* Min is the least of a set of numbers.
LEMMA LeastNumber ==
    ASSUME NEW S \in SUBSET Nat, S # {}
    PROVE  Min(S) \in S /\ \A y \in S : Min(S) <= y
<1>1. PICK x \in S : \A y \in S : ~(<<y, x>> \in OpToRel(<, Nat))
  BY NatLessThanWellFounded, WFMin
<1>2. ASSUME NEW y \in S PROVE x <= y
  <2>1. x \in Nat /\ y \in Nat
    OBVIOUS
  <2>2. y < x => <<y, x>> \in OpToRel(<, Nat)
    BY <2>1 DEF OpToRel
  <2>3. ~(y < x)
    BY <1>1, <2>2
  <2>4. QED
    BY <2>1, <2>3
<1>3. QED
  BY <1>2 DEF Min

\* Appending at the end of a concatenation.
LEMMA ConcatAppend ==
    ASSUME NEW S, NEW s \in Seq(S), NEW t \in Seq(S), NEW e \in S
    PROVE  s \o Append(t, e) = Append(s \o t, e)
<1>1. s \o t \in Seq(S) /\ <<e>> \in Seq(S)
  BY ConcatProperties
<1>2. Append(t, e) = t \o <<e>>
  BY AppendIsConcat
<1>3. Append(s \o t, e) = (s \o t) \o <<e>>
  BY <1>1, AppendIsConcat
<1>4. QED
  BY <1>1, <1>2, <1>3, ConcatAssociative

\* Editing a list.
LEMMA Edited ==
    ASSUME NEW S, NEW s \in Seq(S), NEW e \in S
    PROVE  /\ \A i \in 1 .. Len(s) + 1 : InsertAt(s, i, e) \in Seq(S)
           /\ RemoveFirst(s, e) \in Seq(S)
<1>1. Len(s) \in Nat /\ \A i \in 1 .. Len(s) : s[i] \in S
  BY LenProperties, ElementOfSeq
<1>2. ASSUME NEW i \in 1 .. Len(s) + 1 PROVE InsertAt(s, i, e) \in Seq(S)
  <2>1. SubSeq(s, 1, i - 1) \in Seq(S)
    <3>1. 1 \in Int /\ i - 1 \in Int /\ \A j \in 1 .. (i - 1) : s[j] \in S
      BY <1>1
    <3>2. QED
      BY <3>1, SubSeqProperties
  <2>2. SubSeq(s, i, Len(s)) \in Seq(S)
    <3>1. i \in Int /\ Len(s) \in Int /\ \A j \in i .. Len(s) : s[j] \in S
      BY <1>1
    <3>2. QED
      BY <3>1, SubSeqProperties
  <2>3. <<e>> \in Seq(S)
    OBVIOUS
  <2>4. QED
    BY <2>1, <2>2, <2>3, ConcatProperties DEF InsertAt
<1>3. RemoveFirst(s, e) \in Seq(S)
  <2>1. CASE \E i \in 1 .. Len(s) : s[i] = e
    <3> DEFINE I == {i \in 1 .. Len(s) : s[i] = e}
    <3>1. I \in SUBSET Nat /\ I # {}
      BY <1>1, <2>1
    <3>2. SelectInSeq(s, LAMBDA v : v = e) = Min(I)
      BY <3>1 DEF SelectInSeq
    <3> HIDE DEF I
    <3>3. Min(I) \in I
      BY <3>1, LeastNumber
    <3>4. Min(I) \in 1 .. Len(s)
      BY <3>3 DEF I
    <3>5. RemoveFirst(s, e) = RemoveAt(s, Min(I))
      BY <2>1, <3>2 DEF RemoveFirst
    <3>6. QED
      BY <3>4, <3>5, RemoveAtProperties
  <2>2. CASE ~\E i \in 1 .. Len(s) : s[i] = e
    BY <2>2 DEF RemoveFirst
  <2>3. QED
    BY <2>1, <2>2
<1>4. QED
  BY <1>2, <1>3

-----------------------------------------------------------------------------
(* EthernetInterface: the files and the objects.                           *)

MainFields == [device : Names \union {NoName}, dns1 : BOOLEAN, dns2 : BOOLEAN, comment : BOOLEAN]
Object == [asked : Names, main : MainFields, bindings : Seq(Bindings)]

FilesInv == files \in [Names -> Contents \union {NoFile}]

\* A name, or none, that goes with a device.
Fits(name, device) == name = NoName \/ StartsWith(name, device) \/ StartsWith(name, "null")

\* An object of well-named files has names that go with the device asked for.
ObjectInv ==
    /\ object \in [Objects -> Object \union {NoObject}]
    /\ wellNamed \in [Objects -> BOOLEAN]
    /\ \A o \in Objects : object[o] # NoObject /\ wellNamed[o] =>
          /\ Fits(object[o].main.device, object[o].asked)
          /\ \A i \in DOMAIN object[o].bindings :
                Fits(object[o].bindings[i].name, object[o].asked)

\* A save is of an object, and has come to one of its files.
SaveInv ==
    saving # NoSave =>
        /\ saving \in [object : Objects, file : Nat, open : BOOLEAN]
        /\ object[saving.object] # NoObject
        /\ saving.file <= Len(object[saving.object].bindings)

FilesAndObjects == FilesInv /\ ObjectInv /\ SaveInv

\* What is assumed of the names.
LEMMA NameFacts ==
    /\ "null" \in Names /\ NoName \notin Names /\ StartsWith("null", "null")
    /\ \A name \in Names : StartsWith(name, name)
    /\ \A name \in Names : \A n \in 0 .. LastNum(name) :
          /\ Numbered(name, n) \in Names
          /\ \A start \in Names : StartsWith(name, start) => StartsWith(Numbered(name, n), start)
BY InterfaceAssumption DEF InterfaceAssumption

\* The files of the bindings are loaded in some order.
LEMMA OrderOfFiles ==
    ASSUME NEW S \in SUBSET Names, NEW order \in SetToAllKPermutations(S)
    PROVE  order \in Seq(S)
<1>1. PICK T \in SUBSET S : order \in SetToSeqs(T)
  BY DEF SetToAllKPermutations
<1>2. IsFiniteSet(T)
  BY InterfaceAssumption, FS_Subset DEF InterfaceAssumption
<1>3. Cardinality(T) \in Nat
  BY <1>2, FS_CardinalityType
<1>4. order \in [1 .. Cardinality(T) -> T]
  BY <1>1 DEF SetToSeqs
<1>5. order \in Seq(T)
  BY <1>3, <1>4
<1>6. QED
  BY <1>5

\* What is written to a file, and what an object is not.
LEMMA Shapes ==
    /\ \A x \in Object : x # NoObject
    /\ ~NoFile.exists /\ Empty \in Contents
    /\ \A d \in Names \union {NoName} : FileOf(d) \in Names
    /\ \A m \in MainFields : MainImage(m) \in Contents
    /\ \A b \in Bindings : BindingImage(b) \in Contents
<1>1. \A x \in Object : x # NoObject
  <2>1. \A x \in Object : "main" \in DOMAIN x
    BY DEF Object
  <2>2. "main" \notin DOMAIN NoObject
    BY DEF NoObject
  <2>3. QED
    BY <2>1, <2>2
<1>2. ~NoFile.exists /\ Empty \in Contents
  BY DEF NoFile, Empty, Contents
<1>3. \A d \in Names \union {NoName} : FileOf(d) \in Names
  BY NameFacts DEF FileOf
<1>4. ASSUME NEW m \in MainFields PROVE MainImage(m) \in Contents
  <2>1. FileOf(m.device) \in Names
    BY <1>3 DEF MainFields
  <2>2. QED
    BY <2>1 DEF MainImage, Empty, Contents, MainFields
<1>5. \A b \in Bindings : BindingImage(b) \in Contents
  BY DEF BindingImage, Bindings, Contents
<1>6. QED
  BY <1>1, <1>2, <1>3, <1>4, <1>5

\* What is loaded from well-named files goes with the device.
LEMMA LoadedObject ==
    ASSUME FilesInv, NEW device \in Names, files[device].exists,
           NEW order \in SetToAllKPermutations(BindingFiles(device))
    PROVE  LET x == [asked |-> device, main |-> ReadMain(files[device]),
                     bindings |-> [i \in DOMAIN order |-> ReadBinding(files[order[i]])]]
           IN  /\ x \in Object
               /\ WellNamed(device) =>
                     /\ Fits(x.main.device, device)
                     /\ \A i \in DOMAIN x.bindings : Fits(x.bindings[i].name, device)
<1> DEFINE read == [i \in DOMAIN order |-> ReadBinding(files[order[i]])]
<1>1. BindingFiles(device) \in SUBSET Names
  BY DEF BindingFiles
<1>2. order \in Seq(BindingFiles(device))
  BY <1>1, OrderOfFiles
<1>3. DOMAIN order = 1 .. Len(order) /\ Len(order) \in Nat
  BY <1>2, LenProperties
<1>4. ASSUME NEW i \in DOMAIN order
      PROVE  read[i] \in Bindings /\ (WellNamed(device) => Fits(read[i].name, device))
  <2>1. order[i] \in BindingFiles(device)
    BY <1>2, <1>3, ElementOfSeq
  <2>2. order[i] \in Names /\ files[order[i]] \in Contents
    BY <2>1, Shapes DEF BindingFiles, FilesInv
  <2>3. read[i] = [name |-> files[order[i]].device, content |-> files[order[i]], added |-> FALSE]
    BY DEF ReadBinding
  <2>4. [name |-> files[order[i]].device, content |-> files[order[i]], added |-> FALSE] \in Bindings
    BY <2>2 DEF Bindings, Contents
  <2>5. WellNamed(device) => Fits(files[order[i]].device, device)
    BY <2>1 DEF WellNamed, BindingFiles, Fits
  <2>6. QED
    BY <2>3, <2>4, <2>5
<1>5. read \in Seq(Bindings) /\ DOMAIN read = DOMAIN order
  BY <1>3, <1>4
<1>6. /\ ReadMain(files[device]) \in MainFields
      /\ WellNamed(device) => Fits(ReadMain(files[device]).device, device)
  <2>1. files[device] \in Contents
    BY Shapes DEF FilesInv
  <2>2. WellNamed(device) => Fits(files[device].device, device)
    BY NameFacts DEF WellNamed, Fits
  <2>3. QED
    BY <2>1, <2>2 DEF ReadMain, MainFields, Contents
<1> HIDE DEF read
<1>7. [asked |-> device, main |-> ReadMain(files[device]), bindings |-> read] \in Object
  BY <1>5, <1>6 DEF Object
<1>8. QED
  BY <1>4, <1>5, <1>6, <1>7 DEF read

\* The parts of an object.
LEMMA PartsOfObject ==
    ASSUME ObjectInv, NEW o \in Objects, object[o] # NoObject
    PROVE  /\ object[o] \in Object /\ object[o].asked \in Names
           /\ object[o].main \in MainFields /\ object[o].bindings \in Seq(Bindings)
           /\ Len(object[o].bindings) \in Nat /\ DOMAIN object[o].bindings = 1 .. Len(object[o].bindings)
           /\ \A i \in 1 .. Len(object[o].bindings) : object[o].bindings[i] \in Bindings
           /\ FileOf(object[o].main.device) \in Names
<1>1. object[o] \in Object
  BY DEF ObjectInv
<1>2. object[o].asked \in Names /\ object[o].main \in MainFields /\ object[o].bindings \in Seq(Bindings)
  BY <1>1 DEF Object
<1>3. /\ Len(object[o].bindings) \in Nat /\ DOMAIN object[o].bindings = 1 .. Len(object[o].bindings)
      /\ \A i \in 1 .. Len(object[o].bindings) : object[o].bindings[i] \in Bindings
  BY <1>2, LenProperties, ElementOfSeq
<1>4. FileOf(object[o].main.device) \in Names
  BY <1>2, Shapes DEF MainFields
<1>5. QED
  BY <1>1, <1>2, <1>3, <1>4

\* An object that is changed for one that goes with its device keeps to it.
LEMMA ObjectChanged ==
    ASSUME ObjectInv, NEW o \in Objects, NEW x \in Object, NEW well \in BOOLEAN,
           well => /\ Fits(x.main.device, x.asked)
                   /\ \A i \in DOMAIN x.bindings : Fits(x.bindings[i].name, x.asked),
           object' = [object EXCEPT ![o] = x],
           wellNamed' = [wellNamed EXCEPT ![o] = well]
    PROVE  ObjectInv'
<1>1. object' \in [Objects -> Object \union {NoObject}] /\ wellNamed' \in [Objects -> BOOLEAN]
  BY DEF ObjectInv
<1>2. ASSUME NEW u \in Objects, object'[u] # NoObject, wellNamed'[u]
      PROVE  /\ Fits(object'[u].main.device, object'[u].asked)
             /\ \A i \in DOMAIN object'[u].bindings :
                   Fits(object'[u].bindings[i].name, object'[u].asked)
  <2>1. CASE u = o
    <3>1. object'[u] = x /\ wellNamed'[u] = well
      BY <2>1 DEF ObjectInv
    <3>2. QED
      BY <1>2, <3>1
  <2>2. CASE u # o
    <3>1. object'[u] = object[u] /\ wellNamed'[u] = wellNamed[u]
      BY <2>2 DEF ObjectInv
    <3>2. QED
      BY <1>2, <3>1 DEF ObjectInv
  <2>3. QED
    BY <2>1, <2>2
<1>3. QED
  BY <1>1, <1>2 DEF ObjectInv, Fits

\* Where a save writes, and what.
LEMMA TargetOfObject ==
    ASSUME ObjectInv, NEW o \in Objects, object[o] # NoObject,
           NEW n \in 0 .. Len(object[o].bindings)
    PROVE  /\ Target(o, n) \in Names /\ Image(o, n) \in Contents
           /\ wellNamed[o] => \/ StartsWith(Target(o, n), object[o].asked)
                              \/ StartsWith(Target(o, n), "null")
<1>1. \A d : Fits(d, object[o].asked) =>
          StartsWith(FileOf(d), object[o].asked) \/ StartsWith(FileOf(d), "null")
  BY NameFacts DEF Fits, FileOf
<1>2. CASE n = 0
  <2>1. Target(o, n) = FileOf(object[o].main.device) /\ Image(o, n) = MainImage(object[o].main)
    BY <1>2 DEF Target, Image
  <2>2. QED
    BY <1>1, <2>1, PartsOfObject, Shapes DEF ObjectInv
<1>3. CASE n # 0
  <2>1. n \in 1 .. Len(object[o].bindings) /\ n \in DOMAIN object[o].bindings /\ object[o].bindings[n] \in Bindings
    BY <1>3, PartsOfObject
  <2>2. Target(o, n) = FileOf(object[o].bindings[n].name) /\ Image(o, n) = BindingImage(object[o].bindings[n])
    BY <1>3 DEF Target, Image
  <2>3. Target(o, n) \in Names
    BY <2>1, <2>2, Shapes DEF Bindings
  <2>4. QED
    BY <1>1, <2>1, <2>2, <2>3, Shapes DEF ObjectInv
<1>4. QED
  BY <1>2, <1>3

LEMMA FilesInit == Init => FilesAndObjects
<1> SUFFICES ASSUME Init PROVE FilesAndObjects
  OBVIOUS
<1>1. FilesInv
  <2>1. PICK lines \in DeviceLines :
            files = [name \in Names |->
                        IF name \in DOMAIN lines
                        THEN [Empty EXCEPT !.device = lines[name], !.dns1 = TRUE, !.dns2 = TRUE,
                                           !.comment = TRUE]
                        ELSE NoFile]
    BY DEF Init
  <2>2. \A name \in DOMAIN lines : lines[name] \in Names \union {NoName}
    BY InterfaceAssumption DEF InterfaceAssumption
  <2>3. \A d \in Names \union {NoName} :
           [Empty EXCEPT !.device = d, !.dns1 = TRUE, !.dns2 = TRUE, !.comment = TRUE] \in Contents
    BY DEF Empty, Contents
  <2>4. QED
    BY <2>1, <2>2, <2>3 DEF FilesInv
<1>2. ObjectInv
  BY DEF Init, ObjectInv
<1>3. SaveInv
  BY DEF Init, SaveInv
<1>4. QED
  BY <1>1, <1>2, <1>3 DEF FilesAndObjects

\* The setters leave the names of an object and of its bindings alone.
LEMMA SettersKeepNames ==
    ASSUME ObjectInv, NEW o \in Objects, EditMain(o) \/ EditBinding(o)
    PROVE  /\ object[o] # NoObject /\ UNCHANGED <<files, saving, wellNamed>>
           /\ \E x \in Object :
                 /\ object' = [object EXCEPT ![o] = x]
                 /\ x.asked = object[o].asked /\ x.main.device = object[o].main.device
                 /\ DOMAIN x.bindings = DOMAIN object[o].bindings
                 /\ \A j \in DOMAIN x.bindings : x.bindings[j].name = object[o].bindings[j].name
<1>1. object[o] # NoObject /\ UNCHANGED <<files, saving, wellNamed>>
  BY DEF EditMain, EditBinding, Loaded
<1>2. CASE EditMain(o)
  <2>1. PICK dns1 \in BOOLEAN, dns2 \in BOOLEAN :
            object' = [object EXCEPT ![o].main.dns1 = dns1, ![o].main.dns2 = dns2]
    BY <1>2 DEF EditMain
  <2> DEFINE x == [object[o] EXCEPT !.main.dns1 = dns1, !.main.dns2 = dns2]
  <2>2. object[o] \in Object
    BY <1>1, PartsOfObject
  <2>3. x \in Object /\ x.asked = object[o].asked /\ x.main.device = object[o].main.device
        /\ x.bindings = object[o].bindings
    BY <2>2 DEF Object, MainFields
  <2>4. object' = [object EXCEPT ![o] = x]
    BY <2>1, <2>2 DEF ObjectInv
  <2> HIDE DEF x
  <2>5. QED
    BY <1>1, <2>3, <2>4
<1>3. CASE EditBinding(o)
  <2>1. PICK i \in DOMAIN object[o].bindings, addr \in Addrs \union {NoAddr} :
            object' = [object EXCEPT ![o].bindings[i].content.addr = addr]
    BY <1>3 DEF EditBinding
  <2> DEFINE x == [object[o] EXCEPT !.bindings[i].content.addr = addr]
             b == [object[o].bindings[i] EXCEPT !.content.addr = addr]
  <2>2. object[o] \in Object /\ object[o].bindings \in Seq(Bindings) /\ i \in 1 .. Len(object[o].bindings)
        /\ object[o].bindings[i] \in Bindings /\ DOMAIN object[o].bindings = 1 .. Len(object[o].bindings)
    BY <1>1, <2>1, PartsOfObject
  <2>3. b \in Bindings /\ b.name = object[o].bindings[i].name
    BY <2>2 DEF Bindings, Contents
  <2>4. x = [object[o] EXCEPT !.bindings = [@ EXCEPT ![i] = b]]
    BY <2>2 DEF Object
  <2>5. object' = [object EXCEPT ![o] = x]
    BY <2>1, <2>2 DEF ObjectInv
  <2> HIDE DEF x, b
  <2>6. /\ [object[o].bindings EXCEPT ![i] = b] \in Seq(Bindings)
        /\ Len([object[o].bindings EXCEPT ![i] = b]) = Len(object[o].bindings)
        /\ \A j \in 1 .. Len(object[o].bindings) :
              [object[o].bindings EXCEPT ![i] = b][j] = IF j = i THEN b ELSE object[o].bindings[j]
    BY <2>2, <2>3, ExceptSeq
  <2>7. x \in Object /\ x.asked = object[o].asked /\ x.main = object[o].main
        /\ x.bindings = [object[o].bindings EXCEPT ![i] = b]
    BY <2>2, <2>4, <2>6 DEF Object
  <2>8. DOMAIN x.bindings = 1 .. Len(object[o].bindings)
        /\ \A j \in DOMAIN x.bindings : x.bindings[j].name = object[o].bindings[j].name
    BY <2>2, <2>3, <2>6, <2>7
  <2>9. QED
    BY <1>1, <2>2, <2>5, <2>7, <2>8
<1>4. QED
  BY <1>1, <1>2, <1>3

\* addAddressBinding appends a binding under a name made of the object's.
LEMMA BindingAdded ==
    ASSUME FilesInv, ObjectInv, NEW o \in Objects, AddAddressBinding(o)
    PROVE  /\ object[o] # NoObject /\ UNCHANGED <<files, saving, wellNamed>>
           /\ \E b \in Bindings, x \in Object :
                 /\ object' = [object EXCEPT ![o] = x]
                 /\ x.asked = object[o].asked /\ x.main = object[o].main
                 /\ x.bindings = Append(object[o].bindings, b)
                 /\ wellNamed[o] => Fits(b.name, object[o].asked)
<1>1. object[o] # NoObject /\ UNCHANGED <<files, saving, wellNamed>>
  BY DEF AddAddressBinding, Loaded
<1> DEFINE device == FileOf(object[o].main.device)
<1>2. /\ object[o] \in Object /\ object[o].bindings \in Seq(Bindings)
      /\ object[o].asked \in Names /\ device \in Names
  BY <1>1, PartsOfObject
<1>3. wellNamed[o] => StartsWith(device, object[o].asked) \/ StartsWith(device, "null")
  BY <1>1, NameFacts DEF ObjectInv, Fits, FileOf
<1> HIDE DEF device
<1>4. PICK n \in 0 .. LastNum(device), addr \in Addrs :
          object' = [object EXCEPT ![o].bindings =
                Append(@, [name |-> Numbered(device, n), content |-> [Empty EXCEPT !.addr = addr],
                           added |-> TRUE])]
  BY DEF AddAddressBinding, device
<1> DEFINE b == [name |-> Numbered(device, n), content |-> [Empty EXCEPT !.addr = addr], added |-> TRUE]
           x == [object[o] EXCEPT !.bindings = Append(object[o].bindings, b)]
<1>5. b \in Bindings
  <2>1. [Empty EXCEPT !.addr = addr] \in Contents
    BY <1>4 DEF Empty, Contents
  <2>2. Numbered(device, n) \in Names
    BY <1>2, <1>4, NameFacts
  <2>3. QED
    BY <2>1, <2>2 DEF Bindings
<1>6. object' = [object EXCEPT ![o] = x]
  BY <1>2, <1>4 DEF ObjectInv, Object
<1>7. b.name = Numbered(device, n)
  OBVIOUS
<1> HIDE DEF b
<1>8. Append(object[o].bindings, b) \in Seq(Bindings)
  BY <1>2, <1>5, AppendProperties
<1>9. x \in Object /\ x.asked = object[o].asked /\ x.main = object[o].main
      /\ x.bindings = Append(object[o].bindings, b)
  BY <1>2, <1>8 DEF Object
<1> HIDE DEF x
<1>10. wellNamed[o] => Fits(b.name, object[o].asked)
  BY <1>2, <1>3, <1>4, <1>7, NameFacts DEF Fits
<1>11. QED
  BY <1>1, <1>5, <1>6, <1>9, <1>10

\* down() removes one binding, and its file.
LEMMA BindingDown ==
    ASSUME FilesInv, ObjectInv, NEW o \in Objects, Down(o)
    PROVE  /\ object[o] # NoObject /\ UNCHANGED <<saving, wellNamed>>
           /\ \E i \in 1 .. Len(object[o].bindings), x \in Object :
                 /\ object' = [object EXCEPT ![o] = x]
                 /\ files' = [files EXCEPT ![object[o].bindings[i].name] = NoFile]
                 /\ x.asked = object[o].asked /\ x.main = object[o].main
                 /\ x.bindings = RemoveAt(object[o].bindings, i)
<1>1. object[o] # NoObject /\ UNCHANGED <<saving, wellNamed>>
  BY DEF Down, Loaded
<1>2. object[o] \in Object /\ object[o].bindings \in Seq(Bindings)
      /\ DOMAIN object[o].bindings = 1 .. Len(object[o].bindings)
  BY <1>1, PartsOfObject
<1>3. PICK i \in 1 .. Len(object[o].bindings) :
          /\ object' = [object EXCEPT ![o].bindings = RemoveAt(@, i)]
          /\ files' = [files EXCEPT ![object[o].bindings[i].name] = NoFile]
  BY <1>2 DEF Down
<1> DEFINE x == [object[o] EXCEPT !.bindings = RemoveAt(object[o].bindings, i)]
<1>4. RemoveAt(object[o].bindings, i) \in Seq(Bindings)
  BY <1>2, RemoveAtProperties
<1>5. object' = [object EXCEPT ![o] = x]
  BY <1>2, <1>3 DEF ObjectInv, Object
<1>6. x \in Object /\ x.asked = object[o].asked /\ x.main = object[o].main
      /\ x.bindings = RemoveAt(object[o].bindings, i)
  BY <1>2, <1>4 DEF Object
<1> HIDE DEF x
<1>7. QED
  BY <1>1, <1>3, <1>5, <1>6

\* An object of well-named files is given no name that does not go with its device.
LEMMA FilesEdited ==
    ASSUME FilesAndObjects, NEW o \in Objects,
           Load(o) \/ EditMain(o) \/ EditBinding(o) \/ AddAddressBinding(o) \/ Down(o)
    PROVE  FilesAndObjects'
<1> USE DEF FilesAndObjects
<1>1. saving = NoSave /\ saving' = NoSave
  BY DEF Load, EditMain, EditBinding, AddAddressBinding, Down, Loaded
<1>2. SaveInv'
  BY <1>1 DEF SaveInv
<1>3. CASE Load(o)
  <2>1. PICK device \in Names :
            /\ files[device].exists
            /\ wellNamed' = [wellNamed EXCEPT ![o] = WellNamed(device)]
            /\ \E order \in SetToAllKPermutations(BindingFiles(device)) :
                  object' = [object EXCEPT ![o] =
                     [asked |-> device,
                      main |-> ReadMain(files[device]),
                      bindings |-> [i \in DOMAIN order |-> ReadBinding(files[order[i]])]]]
    BY <1>3 DEF Load
  <2>2. PICK order \in SetToAllKPermutations(BindingFiles(device)) :
                  object' = [object EXCEPT ![o] =
                     [asked |-> device,
                      main |-> ReadMain(files[device]),
                      bindings |-> [i \in DOMAIN order |-> ReadBinding(files[order[i]])]]]
    BY <2>1
  <2> DEFINE x == [asked |-> device, main |-> ReadMain(files[device]),
                   bindings |-> [i \in DOMAIN order |-> ReadBinding(files[order[i]])]]
             well == WellNamed(device)
  <2>3. /\ x \in Object /\ x.asked = device
        /\ well => /\ Fits(x.main.device, device)
                   /\ \A i \in DOMAIN x.bindings : Fits(x.bindings[i].name, device)
    BY <2>1, LoadedObject
  <2>4. object' = [object EXCEPT ![o] = x] /\ wellNamed' = [wellNamed EXCEPT ![o] = well]
    BY <2>1, <2>2
  <2>5. well \in BOOLEAN
    BY DEF WellNamed
  <2> HIDE DEF x, well
  <2>6. ObjectInv'
    BY <2>3, <2>4, <2>5, ObjectChanged
  <2>7. QED
    BY <1>2, <1>3, <2>6 DEF FilesInv, Load
<1>4. CASE EditMain(o) \/ EditBinding(o)
  <2>1. /\ object[o] # NoObject /\ UNCHANGED <<files, wellNamed>>
        /\ \E x \in Object :
              /\ object' = [object EXCEPT ![o] = x]
              /\ x.asked = object[o].asked /\ x.main.device = object[o].main.device
              /\ DOMAIN x.bindings = DOMAIN object[o].bindings
              /\ \A j \in DOMAIN x.bindings : x.bindings[j].name = object[o].bindings[j].name
    BY <1>4, SettersKeepNames
  <2>2. wellNamed' = [wellNamed EXCEPT ![o] = wellNamed[o]] /\ wellNamed[o] \in BOOLEAN
    BY <2>1 DEF ObjectInv
  <2>3. ObjectInv'
    BY <2>1, <2>2, ObjectChanged DEF ObjectInv
  <2>4. QED
    BY <1>2, <2>1, <2>3 DEF FilesInv
<1>5. CASE AddAddressBinding(o)
  <2>1. /\ object[o] # NoObject /\ UNCHANGED <<files, wellNamed>>
        /\ object[o].bindings \in Seq(Bindings)
    BY <1>5, BindingAdded, PartsOfObject
  <2>2. PICK b \in Bindings, x \in Object :
                 /\ object' = [object EXCEPT ![o] = x]
                 /\ x.asked = object[o].asked /\ x.main = object[o].main
                 /\ x.bindings = Append(object[o].bindings, b)
                 /\ wellNamed[o] => Fits(b.name, object[o].asked)
    BY <1>5, BindingAdded
  <2>3. DOMAIN x.bindings = 1 .. (Len(object[o].bindings) + 1)
    BY <2>1, <2>2, AppendProperties, LenProperties
  <2>4. ASSUME NEW i \in DOMAIN x.bindings
        PROVE  \/ x.bindings[i] = b
               \/ i \in DOMAIN object[o].bindings /\ x.bindings[i] = object[o].bindings[i]
    <3>1. /\ Len(object[o].bindings) \in Nat /\ DOMAIN object[o].bindings = 1 .. Len(object[o].bindings)
          /\ \A j \in 1 .. Len(object[o].bindings) : x.bindings[j] = object[o].bindings[j]
          /\ x.bindings[Len(object[o].bindings) + 1] = b
      BY <2>1, <2>2, AppendProperties, LenProperties
    <3>2. QED
      BY <2>3, <3>1
  <2>5. wellNamed[o] => /\ Fits(x.main.device, x.asked)
                        /\ \A i \in DOMAIN x.bindings : Fits(x.bindings[i].name, x.asked)
    BY <2>1, <2>2, <2>4 DEF ObjectInv
  <2>6. wellNamed' = [wellNamed EXCEPT ![o] = wellNamed[o]] /\ wellNamed[o] \in BOOLEAN
    BY <2>1 DEF ObjectInv
  <2>7. ObjectInv'
    BY <2>2, <2>5, <2>6, ObjectChanged
  <2>8. QED
    BY <1>2, <2>1, <2>7 DEF FilesInv
<1>6. CASE Down(o)
  <2>1. object[o] # NoObject /\ wellNamed' = wellNamed /\ object[o].bindings \in Seq(Bindings)
    BY <1>6, BindingDown, PartsOfObject
  <2>2. PICK i \in 1 .. Len(object[o].bindings), x \in Object :
                 /\ object' = [object EXCEPT ![o] = x]
                 /\ files' = [files EXCEPT ![object[o].bindings[i].name] = NoFile]
                 /\ x.asked = object[o].asked /\ x.main = object[o].main
                 /\ x.bindings = RemoveAt(object[o].bindings, i)
    BY <1>6, BindingDown
  <2>3. ASSUME NEW j \in DOMAIN x.bindings
        PROVE  \E k \in DOMAIN object[o].bindings : x.bindings[j] = object[o].bindings[k]
    <3>1. /\ x.bindings \in Seq(Bindings) /\ Len(x.bindings) = Len(object[o].bindings) - 1
          /\ \A k \in 1 .. (Len(object[o].bindings) - 1) :
                x.bindings[k] = object[o].bindings[IF k < i THEN k ELSE k + 1]
      BY <2>1, <2>2, RemoveAtProperties
    <3>2. Len(object[o].bindings) \in Nat /\ DOMAIN object[o].bindings = 1 .. Len(object[o].bindings)
          /\ DOMAIN x.bindings = 1 .. (Len(object[o].bindings) - 1)
      BY <2>1, <3>1, LenProperties
    <3>3. (IF j < i THEN j ELSE j + 1) \in 1 .. Len(object[o].bindings)
      BY <3>2
    <3>4. QED
      BY <3>1, <3>2, <3>3
  <2>4. wellNamed[o] => /\ Fits(x.main.device, x.asked)
                        /\ \A j \in DOMAIN x.bindings : Fits(x.bindings[j].name, x.asked)
    BY <2>1, <2>2, <2>3 DEF ObjectInv
  <2>5. wellNamed' = [wellNamed EXCEPT ![o] = wellNamed[o]] /\ wellNamed[o] \in BOOLEAN
    BY <2>1 DEF ObjectInv
  <2>6. ObjectInv'
    BY <2>2, <2>4, <2>5, ObjectChanged
  <2>7. FilesInv'
    BY <2>2 DEF FilesInv
  <2>8. QED
    BY <1>2, <2>6, <2>7
<1>7. QED
  BY <1>3, <1>4, <1>5, <1>6

-----------------------------------------------------------------------------
(* EthernetInterface: saving.                                              *)

\* A save opens, and empties, one of the files of its object.
LEMMA OpenedFile ==
    ASSUME FilesAndObjects, NEW o \in Objects, SaveOpen(o)
    PROVE  \E n \in 0 .. Len(object[o].bindings) :
              /\ object[o] # NoObject /\ object' = object /\ wellNamed' = wellNamed
              /\ files' = [files EXCEPT ![Target(o, n)] = Empty]
              /\ saving' = [object |-> o, file |-> n, open |-> TRUE]
              /\ n = 0 \/ (saving # NoSave /\ saving.object = o /\ saving.file = n)
<1> USE DEF FilesAndObjects
<1>1. CASE Loaded(o) /\ Open(o, 0)
  <2>1. object[o] # NoObject
    BY <1>1 DEF Loaded
  <2>2. 0 \in 0 .. Len(object[o].bindings)
    BY <2>1, PartsOfObject
  <2>3. QED
    BY <1>1, <2>1, <2>2 DEF Open
<1>2. CASE saving # NoSave /\ saving.object = o /\ ~saving.open /\ Open(o, saving.file)
  <2>1. /\ saving.file \in Nat /\ object[o] # NoObject
        /\ saving.file <= Len(object[o].bindings)
    BY <1>2 DEF SaveInv
  <2>2. saving.file \in 0 .. Len(object[o].bindings)
    BY <2>1, PartsOfObject
  <2>3. QED
    BY <1>2, <2>1, <2>2 DEF Open
<1>3. QED
  BY <1>1, <1>2 DEF SaveOpen

\* A save writes the file it has come to, and goes on to the next one.
LEMMA WrittenFile ==
    ASSUME FilesAndObjects, NEW o \in Objects, SaveWrite(o)
    PROVE  \E n \in 0 .. Len(object[o].bindings) :
              /\ object[o] # NoObject /\ object' = object /\ wellNamed' = wellNamed
              /\ saving # NoSave /\ saving.object = o /\ saving.file = n
              /\ files' = [files EXCEPT ![Target(o, n)] = Image(o, n)]
              /\ \/ n = Len(object[o].bindings) /\ saving' = NoSave
                 \/ /\ n < Len(object[o].bindings) /\ saving' # NoSave
                    /\ saving' = [object |-> o, file |-> n + 1, open |-> FALSE]
<1> USE DEF FilesAndObjects
<1>1. /\ saving # NoSave /\ saving.object = o /\ object' = object /\ wellNamed' = wellNamed
      /\ files' = [files EXCEPT ![Target(o, saving.file)] = Image(o, saving.file)]
      /\ saving' = Following(o, saving.file)
  BY DEF SaveWrite
<1>2. /\ saving.file \in Nat /\ object[o] # NoObject
      /\ saving.file <= Len(object[o].bindings)
  BY <1>1 DEF SaveInv
<1>3. saving.file \in 0 .. Len(object[o].bindings) /\ Len(object[o].bindings) \in Nat
  BY <1>2, PartsOfObject
<1>4. [object |-> o, file |-> saving.file + 1, open |-> FALSE] # NoSave
  <2>1. NoSave.file = 0 /\ saving.file + 1 # 0
    BY <1>2 DEF NoSave
  <2>2. QED
    BY <2>1
<1>5. \/ saving.file = Len(object[o].bindings) /\ saving' = NoSave
      \/ /\ saving.file < Len(object[o].bindings) /\ saving' # NoSave
         /\ saving' = [object |-> o, file |-> saving.file + 1, open |-> FALSE]
  BY <1>1, <1>3, <1>4 DEF Following
<1>6. QED
  BY <1>1, <1>2, <1>3, <1>5

\* A save leaves objects and files of their types.
LEMMA FilesSaved ==
    ASSUME FilesAndObjects,
           \/ \E o \in Objects : SaveOpen(o) \/ SaveWrite(o)
           \/ SaveFails \/ Crash \/ UNCHANGED vars
    PROVE  FilesAndObjects'
<1> USE DEF FilesAndObjects
<1>1. ASSUME NEW o \in Objects, SaveOpen(o) PROVE FilesAndObjects'
  <2>1. PICK n \in 0 .. Len(object[o].bindings) :
              /\ object[o] # NoObject /\ object' = object /\ wellNamed' = wellNamed
              /\ files' = [files EXCEPT ![Target(o, n)] = Empty]
              /\ saving' = [object |-> o, file |-> n, open |-> TRUE]
    BY <1>1, OpenedFile
  <2>2. FilesInv'
    BY <2>1, Shapes DEF FilesInv
  <2>3. ObjectInv'
    BY <2>1 DEF ObjectInv, Fits
  <2>4. n \in Nat /\ n <= Len(object[o].bindings)
    BY <2>1, PartsOfObject
  <2>5. SaveInv'
    BY <2>1, <2>4 DEF SaveInv
  <2>6. QED
    BY <2>2, <2>3, <2>5
<1>2. ASSUME NEW o \in Objects, SaveWrite(o) PROVE FilesAndObjects'
  <2>1. PICK n \in 0 .. Len(object[o].bindings) :
           /\ object[o] # NoObject /\ object' = object /\ wellNamed' = wellNamed
           /\ files' = [files EXCEPT ![Target(o, n)] = Image(o, n)]
           /\ \/ saving' = NoSave
              \/ /\ n < Len(object[o].bindings)
                 /\ saving' = [object |-> o, file |-> n + 1, open |-> FALSE]
    BY <1>2, WrittenFile
  <2>2. FilesInv'
    BY <2>1, TargetOfObject DEF FilesInv
  <2>3. ObjectInv'
    BY <2>1 DEF ObjectInv, Fits
  <2>4. n + 1 \in Nat /\ (n < Len(object[o].bindings) => n + 1 <= Len(object[o].bindings))
    BY <2>1, PartsOfObject
  <2>5. SaveInv'
    <3>1. CASE saving' = NoSave
      BY <3>1 DEF SaveInv
    <3>2. CASE n < Len(object[o].bindings) /\ saving' = [object |-> o, file |-> n + 1, open |-> FALSE]
      <4>1. saving'.object = o /\ saving'.file = n + 1
            /\ saving' \in [object : Objects, file : Nat, open : BOOLEAN]
        BY <2>1, <2>4, <3>2
      <4>2. QED
        BY <2>1, <2>4, <3>2, <4>1 DEF SaveInv
    <3>3. QED
      BY <2>1, <3>1, <3>2
  <2>6. QED
    BY <2>2, <2>3, <2>5
<1>3. CASE SaveFails \/ UNCHANGED vars
  BY <1>3 DEF SaveFails, vars, FilesInv, ObjectInv, SaveInv, Fits
<1>4. CASE Crash
  <2>1. FilesInv'
    BY <1>4 DEF Crash, FilesInv
  <2>2. ObjectInv'
    BY <1>4 DEF Crash, ObjectInv
  <2>3. SaveInv'
    BY <1>4 DEF Crash, SaveInv
  <2>4. QED
    BY <2>1, <2>2, <2>3
<1>5. QED
  BY <1>1, <1>2, <1>3, <1>4

LEMMA FilesPreserved == FilesAndObjects /\ [Next]_vars => FilesAndObjects'
BY FilesEdited, FilesSaved DEF Next

\* The objects and the files have their types, whatever crashed.
THEOREM InterfaceTypes == Spec => []TypeOK
<1>1. FilesAndObjects => TypeOK
  <2> SUFFICES ASSUME FilesAndObjects PROVE TypeOK
    OBVIOUS
  <2> USE DEF FilesAndObjects
  <2>1. ASSUME NEW o \in Objects, object[o] # NoObject
        PROVE  /\ object[o].asked \in Names
               /\ object[o].main.device \in Names \union {NoName}
               /\ object[o].bindings \in Seq(Bindings)
    BY <2>1, PartsOfObject DEF MainFields
  <2>2. saving # NoSave =>
          /\ saving.object \in Objects
          /\ object[saving.object] # NoObject
          /\ saving.file \in 0 .. Len(object[saving.object].bindings)
    BY PartsOfObject DEF SaveInv
  <2>3. QED
    BY <2>1, <2>2 DEF TypeOK, FilesInv, ObjectInv
<1>2. QED
  BY <1>1, FilesInit, FilesPreserved, PTL DEF Spec

\* What a step of an object of well-named files changes goes with its device.
LEMMA ChangesGoWithDevice ==
    ASSUME FilesAndObjects, NEW o \in Objects, NEW name \in Names,
           Down(o) \/ SaveOpen(o) \/ SaveWrite(o), wellNamed[o], files'[name] # files[name]
    PROVE  StartsWith(name, object[o].asked) \/ StartsWith(name, "null")
<1> USE DEF FilesAndObjects
<1>1. CASE Down(o)
  <2>1. PICK i \in 1 .. Len(object[o].bindings) :
           object[o] # NoObject /\ files' = [files EXCEPT ![object[o].bindings[i].name] = NoFile]
    BY <1>1, BindingDown
  <2>2. name = object[o].bindings[i].name
    BY <2>1 DEF FilesInv
  <2>3. name # NoName /\ i \in DOMAIN object[o].bindings
    BY <2>1, NameFacts, PartsOfObject
  <2>4. QED
    BY <2>1, <2>2, <2>3 DEF ObjectInv, Fits
<1>2. CASE SaveOpen(o)
  <2>1. PICK n \in 0 .. Len(object[o].bindings) :
            object[o] # NoObject /\ files' = [files EXCEPT ![Target(o, n)] = Empty]
    BY <1>2, OpenedFile
  <2>2. name = Target(o, n)
    BY <2>1 DEF FilesInv
  <2>3. QED
    BY <2>1, <2>2, TargetOfObject
<1>3. CASE SaveWrite(o)
  <2>1. PICK n \in 0 .. Len(object[o].bindings) :
            object[o] # NoObject /\ files' = [files EXCEPT ![Target(o, n)] = Image(o, n)]
    BY <1>3, WrittenFile
  <2>2. name = Target(o, n)
    BY <2>1 DEF FilesInv
  <2>3. QED
    BY <2>1, <2>2, TargetOfObject
<1>4. QED
  BY <1>1, <1>2, <1>3

\* An object whose files were well named when it was loaded changes only files
\* whose names start with its device's, or with null, for any initial DEVICE
\* lines of the others and whatever crashes have left.
THEOREM KeepsToItsDevice == Spec => StaysWithDevice
<1>1. FilesAndObjects /\ [Next]_vars
        => [\A o \in Objects, name \in Names :
              /\ Down(o) \/ SaveOpen(o) \/ SaveWrite(o)
              /\ wellNamed[o]
              /\ files'[name] # files[name]
              => StartsWith(name, object[o].asked) \/ StartsWith(name, "null")]_vars
  BY ChangesGoWithDevice
<1>2. QED
  BY <1>1, FilesInit, FilesPreserved, PTL DEF Spec, StaysWithDevice

-----------------------------------------------------------------------------
(* EthernetInterface: what a save has written.                             *)

\* Nothing that comes later goes to the file of the i-th part of an object.
LastThere(o, i) == \A j \in (i + 1) .. Len(object[o].bindings) : Target(o, j) # Target(o, i)

\* The files of the parts before the n-th are as the object is.
WrittenBefore(o, n) ==
    \A i \in 0 .. Len(object[o].bindings) :
        i < n /\ LastThere(o, i) => files[Target(o, i)] = Image(o, i)

WrittenInv == saving # NoSave => WrittenBefore(saving.object, saving.file)

\* What comes later goes to other files.
LEMMA LaterFiles ==
    ASSUME FilesInv, ObjectInv, NEW o \in Objects, object[o] # NoObject,
           NEW n \in 0 .. Len(object[o].bindings), NEW content,
           WrittenBefore(o, n), object' = object,
           files' = [files EXCEPT ![Target(o, n)] = content]
    PROVE  /\ WrittenBefore(o, n)'
           /\ content = Image(o, n) => WrittenBefore(o, n + 1)'
<1>1. Len(object[o].bindings) \in Nat /\ n \in Nat
  BY PartsOfObject
<1>2. \A i \in 0 .. Len(object[o].bindings) : Target(o, i) \in Names
  BY TargetOfObject
<1>3. \A i : Target(o, i)' = Target(o, i) /\ Image(o, i)' = Image(o, i)
             /\ (LastThere(o, i)' <=> LastThere(o, i))
  BY DEF Target, Image, LastThere
<1>4. ASSUME NEW i \in 0 .. Len(object[o].bindings), i < n, LastThere(o, i)
      PROVE  files'[Target(o, i)] = Image(o, i)
  <2>1. files[Target(o, i)] = Image(o, i)
    BY <1>4 DEF WrittenBefore
  <2>2. n \in (i + 1) .. Len(object[o].bindings)
    BY <1>1, <1>4
  <2>3. Target(o, n) # Target(o, i)
    BY <1>4, <2>2 DEF LastThere
  <2>4. QED
    BY <1>2, <2>1, <2>3 DEF FilesInv
<1>5. WrittenBefore(o, n)'
  BY <1>3, <1>4 DEF WrittenBefore
<1>6. ASSUME content = Image(o, n) PROVE WrittenBefore(o, n + 1)'
  <2>1. files'[Target(o, n)] = Image(o, n)
    BY <1>2, <1>6 DEF FilesInv
  <2>2. \A i \in 0 .. Len(object[o].bindings) : i < n + 1 => i < n \/ i = n
    BY <1>1
  <2>3. QED
    BY <1>3, <1>4, <2>1, <2>2 DEF WrittenBefore
<1>7. QED
  BY <1>5, <1>6

LEMMA WrittenPreserved ==
    ASSUME FilesAndObjects, WrittenInv, [Next]_vars
    PROVE  WrittenInv'
<1> USE DEF FilesAndObjects
<1>1. CASE \E o \in Objects :
              Load(o) \/ EditMain(o) \/ EditBinding(o) \/ AddAddressBinding(o) \/ Down(o)
  <2>1. saving' = NoSave
    BY <1>1 DEF Load, EditMain, EditBinding, AddAddressBinding, Down, Loaded
  <2>2. QED
    BY <2>1 DEF WrittenInv
<1>2. ASSUME NEW o \in Objects, SaveOpen(o) PROVE WrittenInv'
  <2>1. PICK n \in 0 .. Len(object[o].bindings) :
              /\ object[o] # NoObject /\ object' = object
              /\ files' = [files EXCEPT ![Target(o, n)] = Empty]
              /\ saving' = [object |-> o, file |-> n, open |-> TRUE]
              /\ n = 0 \/ (saving # NoSave /\ saving.object = o /\ saving.file = n)
    BY <1>2, OpenedFile
  <2>2. WrittenBefore(o, 0)
    <3>1. \A i \in 0 .. Len(object[o].bindings) : ~(i < 0)
      BY <2>1, PartsOfObject
    <3>2. QED
      BY <3>1 DEF WrittenBefore
  <2>3. WrittenBefore(o, n)
    BY <2>1, <2>2 DEF WrittenInv
  <2>4. WrittenBefore(o, n)'
    BY <2>1, <2>3, LaterFiles
  <2>5. saving'.object = o /\ saving'.file = n
    BY <2>1
  <2>6. QED
    BY <2>4, <2>5 DEF WrittenInv, WrittenBefore
<1>3. ASSUME NEW o \in Objects, SaveWrite(o) PROVE WrittenInv'
  <2>1. PICK n \in 0 .. Len(object[o].bindings) :
           /\ object[o] # NoObject /\ object' = object
           /\ saving # NoSave /\ saving.object = o /\ saving.file = n
           /\ files' = [files EXCEPT ![Target(o, n)] = Image(o, n)]
           /\ saving' = NoSave \/ saving' = [object |-> o, file |-> n + 1, open |-> FALSE]
    BY <1>3, WrittenFile
  <2>2. WrittenBefore(o, n + 1)'
    BY <2>1, LaterFiles DEF WrittenInv
  <2>3. saving' # NoSave => saving'.object = o /\ saving'.file = n + 1
    BY <2>1
  <2>4. QED
    BY <2>2, <2>3 DEF WrittenInv, WrittenBefore
<1>4. CASE SaveFails \/ Crash
  BY <1>4 DEF SaveFails, Crash, WrittenInv
<1>5. CASE UNCHANGED vars
  BY <1>5 DEF vars, WrittenInv, WrittenBefore, LastThere, Target, Image
<1>6. QED
  BY <1>1, <1>2, <1>3, <1>4, <1>5 DEF Next

\* When a save comes to its end, each of its files holds the last of what the
\* object has to go there.
THEOREM WhatIsSavedIsWritten == Spec => SavedMeansWritten
<1> DEFINE Inv == FilesAndObjects /\ WrittenInv
<1>1. Init => Inv
  BY FilesInit DEF Init, WrittenInv
<1>2. Inv /\ [Next]_vars => Inv'
  BY FilesPreserved, WrittenPreserved
<1>3. ASSUME Inv, NEW o \in Objects, SaveWrite(o), saving' = NoSave,
             NEW i \in 0 .. Len(object[o].bindings),
             \A j \in (i + 1) .. Len(object[o].bindings) : Target(o, j) # Target(o, i)
      PROVE  files'[Target(o, i)] = Image(o, i)
  <2> USE DEF FilesAndObjects
  <2>1. PICK n \in 0 .. Len(object[o].bindings) :
           /\ object[o] # NoObject /\ object' = object
           /\ saving # NoSave /\ saving.object = o /\ saving.file = n
           /\ files' = [files EXCEPT ![Target(o, n)] = Image(o, n)]
           /\ n = Len(object[o].bindings)
    BY <1>3, WrittenFile
  <2>2. WrittenBefore(o, n + 1)'
    BY <1>3, <2>1, LaterFiles DEF WrittenInv
  <2>3. i < n + 1
    BY <2>1, PartsOfObject
  <2>4. LastThere(o, i)' /\ Target(o, i)' = Target(o, i) /\ Image(o, i)' = Image(o, i)
    BY <1>3, <2>1 DEF LastThere, Target, Image
  <2>5. QED
    BY <2>1, <2>2, <2>3, <2>4 DEF WrittenBefore
<1>4. Inv /\ [Next]_vars
        => [\A o \in Objects : SaveWrite(o) /\ saving' = NoSave =>
              \A i \in 0 .. Len(object[o].bindings) :
                  (\A j \in (i + 1) .. Len(object[o].bindings) : Target(o, j) # Target(o, i)) =>
                      files'[Target(o, i)] = Image(o, i)]_vars
  <2> HIDE DEF Inv
  <2>1. QED
    BY <1>3
<1>5. QED
  BY <1>1, <1>2, <1>4, PTL DEF Spec, SavedMeansWritten

-----------------------------------------------------------------------------
(* DnsConfig: reading a file, and reading back what was written.           *)

\* f goes through the lines as Reading's function does.
Reads(f, c, lines) ==
    f = [n \in 0 .. Len(lines) |-> IF n = 0 THEN c ELSE WithLine(f[n - 1], lines[n])]

\* There is such a function.
LEMMA ReadingExists ==
    ASSUME NEW c, NEW lines, Len(lines) \in Nat
    PROVE  \E f : Reads(f, c, lines)
<1> DEFINE G(f, k) == f = [n \in 0 .. k |-> IF n = 0 THEN c ELSE WithLine(f[n - 1], lines[n])]
           S == {k \in Nat : \E f : G(f, k)}
<1>1. 0 \in S
  <2> DEFINE f == [n \in 0 .. 0 |-> c]
  <2>1. \A n \in 0 .. 0 : n = 0
    OBVIOUS
  <2>2. G(f, 0)
    BY <2>1
  <2>3. QED
    BY <2>2
<1>2. ASSUME NEW k \in Nat, k \in S PROVE k + 1 \in S
  <2>1. PICK f : G(f, k)
    BY <1>2
  <2> DEFINE g == [n \in 0 .. (k + 1) |-> IF n = k + 1 THEN WithLine(f[k], lines[k + 1]) ELSE f[n]]
  <2>2. ASSUME NEW n \in 0 .. (k + 1)
        PROVE  g[n] = IF n = 0 THEN c ELSE WithLine(g[n - 1], lines[n])
    <3>1. CASE n = k + 1
      <4>1. k \in 0 .. (k + 1) /\ k # k + 1 /\ n # 0 /\ n - 1 = k
        BY <3>1
      <4>2. g[n] = WithLine(f[k], lines[k + 1]) /\ g[k] = f[k]
        BY <3>1, <4>1
      <4>3. QED
        BY <3>1, <4>1, <4>2
    <3>2. CASE n # k + 1
      <4>1. n \in 0 .. k /\ (n # 0 => n - 1 \in 0 .. (k + 1) /\ n - 1 # k + 1)
        BY <3>2
      <4>2. g[n] = f[n] /\ (n # 0 => g[n - 1] = f[n - 1])
        BY <3>2, <4>1
      <4>3. f[n] = IF n = 0 THEN c ELSE WithLine(f[n - 1], lines[n])
        BY <2>1, <4>1
      <4>4. QED
        BY <4>2, <4>3
    <3>3. QED
      BY <3>1, <3>2
  <2>3. G(g, k + 1)
    <3>1. g = [n \in 0 .. (k + 1) |-> g[n]]
      OBVIOUS
    <3> HIDE DEF g
    <3>2. QED
      BY <2>2, <3>1
  <2>4. \E h : G(h, k + 1)
    BY <2>3
  <2>5. QED
    BY <2>4
<1> HIDE DEF S
<1>3. Nat \subseteq S
  BY <1>1, <1>2, Induction
<1>4. QED
  BY <1>3 DEF S, Reads

\* The values on the way to Reading(c, lines).
LEMMA ReadingValues ==
    ASSUME NEW c, NEW lines, Len(lines) \in Nat
    PROVE  \E f : /\ f[0] = c
                  /\ \A n \in 1 .. Len(lines) : f[n] = WithLine(f[n - 1], lines[n])
                  /\ Reading(c, lines) = f[Len(lines)]
<1> DEFINE after[n \in 0 .. Len(lines)] == IF n = 0 THEN c ELSE WithLine(after[n - 1], lines[n])
<1>1. after = [n \in 0 .. Len(lines) |-> IF n = 0 THEN c ELSE WithLine(after[n - 1], lines[n])]
  <2>1. \E f : Reads(f, c, lines)
    BY ReadingExists
  <2>2. after = CHOOSE f : Reads(f, c, lines)
    BY DEF after, Reads
  <2> HIDE DEF after
  <2>3. Reads(after, c, lines)
    BY <2>1, <2>2
  <2>4. QED
    BY <2>3 DEF Reads
<1>2. Reading(c, lines) = after[Len(lines)]
  BY DEF Reading
<1> HIDE DEF after
<1>3. after[0] = c
  BY <1>1
<1>4. \A n \in 1 .. Len(lines) : after[n] = WithLine(after[n - 1], lines[n])
  BY <1>1
<1>5. QED
  BY <1>2, <1>3, <1>4

Configs == [nameserver : Seq(Addresses),
            domain     : Domains \union {None},
            search     : Seq(Domains),
            sortlist   : Seq(Addresses),
            others     : Seq(OtherLine)]

\* Reading goes line by line.
LEMMA ReadingAppend ==
    ASSUME NEW c, NEW S, NEW lines \in Seq(S), NEW line \in S
    PROVE  Reading(c, Append(lines, line)) = WithLine(Reading(c, lines), line)
<1> DEFINE longer == Append(lines, line)
           k == Len(lines)
<1>1. /\ k \in Nat /\ Len(longer) = k + 1 /\ longer[k + 1] = line
      /\ \A n \in 1 .. k : longer[n] = lines[n]
  BY AppendProperties, LenProperties
<1> HIDE DEF longer, k
<1>2. PICK f : /\ f[0] = c
               /\ \A n \in 1 .. k : f[n] = WithLine(f[n - 1], lines[n])
               /\ Reading(c, lines) = f[k]
  BY <1>1, ReadingValues DEF k
<1>3. PICK g : /\ g[0] = c
               /\ \A n \in 1 .. (k + 1) : g[n] = WithLine(g[n - 1], longer[n])
               /\ Reading(c, longer) = g[k + 1]
  <2>1. Len(longer) \in Nat /\ Len(longer) = k + 1
    BY <1>1
  <2>2. \E g : /\ g[0] = c
               /\ \A n \in 1 .. Len(longer) : g[n] = WithLine(g[n - 1], longer[n])
               /\ Reading(c, longer) = g[Len(longer)]
    BY <2>1, ReadingValues
  <2>3. QED
    BY <2>1, <2>2
<1> DEFINE Same == {n \in Nat : n <= k => f[n] = g[n]}
<1>4. 0 \in Same
  BY <1>2, <1>3
<1>5. ASSUME NEW n \in Nat, n \in Same PROVE n + 1 \in Same
  <2> SUFFICES ASSUME n + 1 <= k PROVE f[n + 1] = g[n + 1]
    OBVIOUS
  <2>1. n + 1 \in 1 .. k /\ n + 1 \in 1 .. (k + 1) /\ (n + 1) - 1 = n /\ n <= k
    BY <1>1
  <2>2. f[n + 1] = WithLine(f[n], lines[n + 1]) /\ g[n + 1] = WithLine(g[n], longer[n + 1])
    BY <1>2, <1>3, <2>1
  <2>3. f[n] = g[n] /\ longer[n + 1] = lines[n + 1]
    BY <1>1, <1>5, <2>1
  <2>4. QED
    BY <2>2, <2>3
<1> HIDE DEF Same
<1>6. k \in Same
  BY <1>1, <1>4, <1>5, Induction
<1>7. f[k] = g[k]
  BY <1>1, <1>6 DEF Same
<1>8. g[k + 1] = WithLine(g[k], line)
  <2>1. k + 1 \in 1 .. (k + 1) /\ (k + 1) - 1 = k
    BY <1>1
  <2>2. QED
    BY <1>1, <1>3, <2>1
<1>9. QED
  BY <1>2, <1>3, <1>7, <1>8 DEF longer

LEMMA ReadingEmpty == \A c : Reading(c, <<>>) = c
<1> SUFFICES ASSUME NEW c PROVE Reading(c, <<>>) = c
  OBVIOUS
<1>1. Len(<<>>) = 0
  OBVIOUS
<1>2. PICK f : f[0] = c /\ Reading(c, <<>>) = f[0]
  BY <1>1, ReadingValues
<1>3. QED
  BY <1>2

\* What is read after some lines is read into the object that they give.
LEMMA ReadingConcat ==
    ASSUME NEW c, NEW S, NEW first \in Seq(S), NEW second \in Seq(S)
    PROVE  Reading(c, first \o second) = Reading(Reading(c, first), second)
<1> DEFINE Holds == {n \in Nat : \A s \in Seq(S) :
                        Len(s) = n => Reading(c, first \o s) = Reading(Reading(c, first), s)}
<1>1. 0 \in Holds
  <2> SUFFICES ASSUME NEW s \in Seq(S), Len(s) = 0
               PROVE  Reading(c, first \o s) = Reading(Reading(c, first), s)
    OBVIOUS
  <2>1. s = <<>> /\ first \o s = first
    BY EmptySeq, ConcatEmptySeq
  <2>2. QED
    BY <2>1, ReadingEmpty
<1>2. ASSUME NEW n \in Nat, n \in Holds PROVE n + 1 \in Holds
  <2> SUFFICES ASSUME NEW s \in Seq(S), Len(s) = n + 1
               PROVE  Reading(c, first \o s) = Reading(Reading(c, first), s)
    OBVIOUS
  <2>1. s # <<>>
    BY EmptySeq
  <2>2. PICK t \in Seq(S), e \in S : s = Append(t, e)
    BY <2>1, SequenceEmptyOrAppend
  <2>3. Len(t) = n
    BY <2>2, AppendProperties, LenProperties
  <2> DEFINE u == first \o t
  <2>4. u \in Seq(S) /\ first \o s = Append(u, e)
    BY <2>2
  <2> HIDE DEF u
  <2>5. Reading(c, first \o s) = WithLine(Reading(c, u), e)
    <3>1. Reading(c, Append(u, e)) = WithLine(Reading(c, u), e)
      BY <2>4, ReadingAppend
    <3>2. QED
      BY <2>4, <3>1
  <2>6. Reading(Reading(c, first), s) = WithLine(Reading(Reading(c, first), t), e)
    BY <2>2, ReadingAppend
  <2>7. Reading(c, u) = Reading(Reading(c, first), t)
    BY <1>2, <2>3 DEF u
  <2>8. QED
    BY <2>5, <2>6, <2>7
<1> HIDE DEF Holds
<1>3. Nat \subseteq Holds
  BY <1>1, <1>2, Induction
<1>4. Len(second) \in Holds
  BY <1>3, LenProperties
<1>5. QED
  BY <1>4 DEF Holds

\* An object that has read another line is an object.
LEMMA WithLineTypes ==
    ASSUME NEW c \in Configs, NEW line \in FileLine
    PROVE  WithLine(c, line) \in Configs
<1>1. /\ line.words \in Seq(Addresses \union Domains) /\ line.words # <<>> /\ line.kind \in Kinds
      /\ line.kind \in {"nameserver", "sortlist"} => line.words[1] \in Addresses
      /\ line.kind \in {"domain", "search"} => line.words[1] \in Domains
  BY DEF FileLine
<1>2. CASE line.kind = "nameserver"
  <2>1. line.words[1] \in Addresses
    BY <1>1, <1>2
  <2>2. Append(c.nameserver, line.words[1]) \in Seq(Addresses)
    BY <2>1 DEF Configs
  <2>3. QED
    BY <1>2, <2>2 DEF WithLine, Configs
<1>3. CASE line.kind = "domain"
  <2>1. line.words[1] \in Domains
    BY <1>1, <1>3
  <2>2. QED
    BY <1>3, <2>1 DEF WithLine, Configs
<1>4. CASE line.kind = "search"
  <2>1. line.words[1] \in Domains
    BY <1>1, <1>4
  <2>2. Append(c.search, line.words[1]) \in Seq(Domains)
    BY <2>1 DEF Configs
  <2>3. QED
    BY <1>4, <2>2 DEF WithLine, Configs
<1>5. CASE line.kind = "sortlist"
  <2>1. line.words[1] \in Addresses
    BY <1>1, <1>5
  <2>2. Append(c.sortlist, line.words[1]) \in Seq(Addresses)
    BY <2>1 DEF Configs
  <2>3. QED
    BY <1>5, <2>2 DEF WithLine, Configs
<1>6. CASE line.kind \in {"bare", "other"}
  <2>1. line \in OtherLine
    BY <1>6 DEF OtherLine
  <2>2. Append(c.others, line) \in Seq(OtherLine)
    BY <2>1 DEF Configs
  <2>3. QED
    BY <1>6, <2>2 DEF WithLine, Configs
<1>7. QED
  BY <1>1, <1>2, <1>3, <1>4, <1>5, <1>6 DEF Kinds

\* Reading the lines of a file gives an object.
LEMMA ParseTypes == EmptyConfig \in Configs /\ \A lines \in Seq(FileLine) : Parse(lines) \in Configs
<1>1. EmptyConfig \in Configs
  BY DEF EmptyConfig, Configs
<1>2. ASSUME NEW lines \in Seq(FileLine) PROVE Reading(EmptyConfig, lines) \in Configs
  <2> DEFINE k == Len(lines)
  <2>1. k \in Nat /\ \A n \in 1 .. k : lines[n] \in FileLine
    BY LenProperties, ElementOfSeq
  <2>2. PICK f : /\ f[0] = EmptyConfig
                 /\ \A n \in 1 .. k : f[n] = WithLine(f[n - 1], lines[n])
                 /\ Reading(EmptyConfig, lines) = f[k]
    BY <2>1, ReadingValues
  <2> HIDE DEF k
  <2> DEFINE Holds == {n \in Nat : n <= k => f[n] \in Configs}
  <2>3. 0 \in Holds
    BY <1>1, <2>2
  <2>4. ASSUME NEW n \in Nat, n \in Holds PROVE n + 1 \in Holds
    <3> SUFFICES ASSUME n + 1 <= k PROVE f[n + 1] \in Configs
      OBVIOUS
    <3>1. n + 1 \in 1 .. k /\ (n + 1) - 1 = n /\ f[n] \in Configs
      BY <2>1, <2>4
    <3>2. f[n + 1] = WithLine(f[n], lines[n + 1]) /\ lines[n + 1] \in FileLine
      BY <2>1, <2>2, <3>1
    <3>3. QED
      BY <3>1, <3>2, WithLineTypes
  <2> HIDE DEF Holds
  <2>5. k \in Holds
    BY <2>1, <2>3, <2>4, Induction
  <2>6. QED
    BY <2>1, <2>2, <2>5 DEF Holds
<1>3. QED
  BY <1>1, <1>2 DEF Parse

\* The lines of a list of words are read back as the words.
LEMMA ReadingWords ==
    ASSUME NEW W, NEW words \in Seq(W), NEW kind \in {"nameserver", "search"},
           NEW c \in Configs, c[kind] \in Seq(W)
    PROVE  Reading(c, LinesOf(kind, words)) = [c EXCEPT ![kind] = @ \o words]
<1> DEFINE Holds == {n \in Nat : \A w \in Seq(W) :
                        Len(w) = n => Reading(c, LinesOf(kind, w)) = [c EXCEPT ![kind] = @ \o w]}
<1>1. 0 \in Holds
  <2> SUFFICES ASSUME NEW w \in Seq(W), Len(w) = 0
               PROVE  Reading(c, LinesOf(kind, w)) = [c EXCEPT ![kind] = @ \o w]
    OBVIOUS
  <2>1. w = <<>> /\ c[kind] \o w = c[kind]
    BY EmptySeq, ConcatEmptySeq
  <2>2. LinesOf(kind, w) = <<>>
    BY <2>1 DEF LinesOf
  <2>3. [c EXCEPT ![kind] = c[kind]] = c
    BY DEF Configs
  <2>4. QED
    BY <2>1, <2>2, <2>3, ReadingEmpty
<1>2. ASSUME NEW n \in Nat, n \in Holds PROVE n + 1 \in Holds
  <2> SUFFICES ASSUME NEW w \in Seq(W), Len(w) = n + 1
               PROVE  Reading(c, LinesOf(kind, w)) = [c EXCEPT ![kind] = @ \o w]
    OBVIOUS
  <2>1. w # <<>>
    BY EmptySeq
  <2>2. PICK v \in Seq(W), x \in W : w = Append(v, x)
    BY <2>1, SequenceEmptyOrAppend
  <2>3. Len(v) = n
    BY <2>2, AppendProperties, LenProperties
  <2>4. LinesOf(kind, v) \in Seq({Line(kind, y) : y \in W})
    BY DEF LinesOf
  <2>5. LinesOf(kind, w) = Append(LinesOf(kind, v), Line(kind, x))
    BY <2>2, <2>3 DEF LinesOf
  <2> DEFINE before == LinesOf(kind, v)
  <2>6. Reading(c, LinesOf(kind, w)) = WithLine(Reading(c, before), Line(kind, x))
    <3> HIDE DEF before
    <3>1. Line(kind, x) \in {Line(kind, y) : y \in W}
      OBVIOUS
    <3>2. QED
      BY <2>4, <2>5, <3>1, ReadingAppend DEF before
  <2>7. Reading(c, before) = [c EXCEPT ![kind] = @ \o v]
    BY <1>2, <2>3
  <2> HIDE DEF before
  <2> DEFINE kept == c[kind]
  <2>8. kept \o w = Append(kept \o v, x)
    <3>1. kept \in Seq(W)
      OBVIOUS
    <3> HIDE DEF kept
    <3>2. kept \o Append(v, x) = Append(kept \o v, x)
      BY <3>1, ConcatAppend
    <3>3. QED
      BY <2>2, <3>2
  <2>9. Reading(c, before).nameserver = IF kind = "nameserver" THEN kept \o v ELSE c.nameserver
    BY <2>7 DEF Configs
  <2>10. Reading(c, before).search = IF kind = "search" THEN kept \o v ELSE c.search
    BY <2>7 DEF Configs
  <2>11. WithLine(Reading(c, before), Line(kind, x))
            = [Reading(c, before) EXCEPT ![kind] = Append(kept \o v, x)]
    BY <2>9, <2>10 DEF WithLine, Line
  <2>12. [c EXCEPT ![kind] = kept \o w] = [[c EXCEPT ![kind] = kept \o v] EXCEPT ![kind] = kept \o w]
    <3> HIDE DEF kept
    <3>1. QED
      BY DEF Configs
  <2>13. QED
    BY <2>6, <2>7, <2>8, <2>11, <2>12
<1> HIDE DEF Holds
<1>3. Len(words) \in Holds
  BY <1>1, <1>2, Induction, LenProperties
<1>4. QED
  BY <1>3 DEF Holds

\* Other lines are kept as they are.
LEMMA ReadingOthers ==
    ASSUME NEW lines \in Seq(OtherLine), NEW c \in Configs
    PROVE  Reading(c, lines) = [c EXCEPT !.others = @ \o lines]
<1> DEFINE Holds == {n \in Nat : \A w \in Seq(OtherLine) :
                        Len(w) = n => Reading(c, w) = [c EXCEPT !.others = @ \o w]}
<1>1. 0 \in Holds
  <2> SUFFICES ASSUME NEW w \in Seq(OtherLine), Len(w) = 0
               PROVE  Reading(c, w) = [c EXCEPT !.others = @ \o w]
    OBVIOUS
  <2>1. w = <<>> /\ c.others \o w = c.others
    BY EmptySeq, ConcatEmptySeq DEF Configs
  <2>2. [c EXCEPT !.others = c.others] = c
    BY DEF Configs
  <2>3. QED
    BY <2>1, <2>2, ReadingEmpty
<1>2. ASSUME NEW n \in Nat, n \in Holds PROVE n + 1 \in Holds
  <2> SUFFICES ASSUME NEW w \in Seq(OtherLine), Len(w) = n + 1
               PROVE  Reading(c, w) = [c EXCEPT !.others = @ \o w]
    OBVIOUS
  <2>1. w # <<>>
    BY EmptySeq
  <2>2. PICK v \in Seq(OtherLine), x \in OtherLine : w = Append(v, x)
    BY <2>1, SequenceEmptyOrAppend
  <2>3. Len(v) = n
    BY <2>2, AppendProperties, LenProperties
  <2>4. Reading(c, w) = WithLine(Reading(c, v), x)
    BY <2>2, ReadingAppend
  <2>5. Reading(c, v) = [c EXCEPT !.others = @ \o v]
    BY <1>2, <2>3
  <2>6. x.kind \in {"bare", "other"}
    BY DEF OtherLine
  <2>7. Append(c.others \o v, x) = c.others \o w
    <3> DEFINE kept == c.others
    <3>1. kept \in Seq(OtherLine)
      BY DEF Configs
    <3> HIDE DEF kept
    <3>2. kept \o Append(v, x) = Append(kept \o v, x)
      BY <3>1, ConcatAppend
    <3>3. QED
      BY <2>2, <3>2 DEF kept
  <2>8. QED
    BY <2>4, <2>5, <2>6, <2>7 DEF WithLine, Configs
<1> HIDE DEF Holds
<1>3. Len(lines) \in Holds
  BY <1>1, <1>2, Induction, LenProperties
<1>4. QED
  BY <1>3 DEF Holds

\* The parts of an object's file.
LEMMA PartsOfImage ==
    ASSUME NEW c \in Configs
    PROVE  /\ LinesOf("nameserver", c.nameserver) \in Seq(FileLine)
           /\ (IF c.domain = None THEN <<>> ELSE <<Line("domain", c.domain)>>) \in Seq(FileLine)
           /\ LinesOf("search", c.search) \in Seq(FileLine)
           /\ LinesOf("bare", c.sortlist) \in Seq(OtherLine)
           /\ c.others \in Seq(OtherLine)
<1>1. /\ \A a \in Addresses : Line("nameserver", a) \in FileLine /\ Line("bare", a) \in OtherLine
      /\ \A d \in Domains : Line("domain", d) \in FileLine /\ Line("search", d) \in FileLine
  <2>1. \A x : <<x>> # <<>> /\ <<x>>[1] = x /\ (x \in Addresses \union Domains => <<x>> \in Seq(Addresses \union Domains))
    OBVIOUS
  <2>2. QED
    BY <2>1 DEF FileLine, OtherLine, Line, Kinds
<1>2. /\ c.nameserver \in Seq(Addresses) /\ c.domain \in Domains \union {None}
      /\ c.search \in Seq(Domains) /\ c.sortlist \in Seq(Addresses) /\ c.others \in Seq(OtherLine)
  BY DEF Configs
<1>3. LinesOf("nameserver", c.nameserver) \in Seq(FileLine)
  BY <1>1, <1>2 DEF LinesOf
<1>4. (IF c.domain = None THEN <<>> ELSE <<Line("domain", c.domain)>>) \in Seq(FileLine)
  BY <1>1, <1>2
<1>5. LinesOf("search", c.search) \in Seq(FileLine)
  BY <1>1, <1>2 DEF LinesOf
<1>6. LinesOf("bare", c.sortlist) \in Seq(OtherLine)
  BY <1>1, <1>2 DEF LinesOf
<1>7. QED
  BY <1>2, <1>3, <1>4, <1>5, <1>6

LEMMA ImageTypes == \A c \in Configs : ConfigImage(c) \in Seq(FileLine)
<1> SUFFICES ASSUME NEW c \in Configs PROVE ConfigImage(c) \in Seq(FileLine)
  OBVIOUS
<1>1. \A lines \in Seq(OtherLine) : lines \in Seq(FileLine)
  BY SeqMonotonic DEF OtherLine
<1>2. QED
  BY <1>1, PartsOfImage, ConcatProperties DEF ConfigImage

\* What a save writes and a getConfig reads back is the object, with the
\* entries of the sort list among the other lines.
LEMMA ReadBack ==
    ASSUME NEW c \in Configs
    PROVE  Parse(ConfigImage(c)) = [c EXCEPT !.sortlist = <<>>,
                                             !.others = LinesOf("bare", c.sortlist) \o @]
<1> DEFINE ns == LinesOf("nameserver", c.nameserver)
           dom == IF c.domain = None THEN <<>> ELSE <<Line("domain", c.domain)>>
           srch == LinesOf("search", c.search)
           bare == LinesOf("bare", c.sortlist)
           c1 == [EmptyConfig EXCEPT !.nameserver = c.nameserver]
           c2 == [c1 EXCEPT !.domain = c.domain]
           c3 == [c2 EXCEPT !.search = c.search]
           c4 == [c3 EXCEPT !.others = bare]
           c5 == [c4 EXCEPT !.others = bare \o c.others]
<1>1. /\ c.nameserver \in Seq(Addresses) /\ c.domain \in Domains \union {None}
      /\ c.search \in Seq(Domains) /\ c.sortlist \in Seq(Addresses) /\ c.others \in Seq(OtherLine)
  BY DEF Configs
<1>2. /\ ns \in Seq(FileLine) /\ dom \in Seq(FileLine) /\ srch \in Seq(FileLine)
      /\ bare \in Seq(OtherLine) /\ bare \in Seq(FileLine) /\ c.others \in Seq(FileLine)
  <2>1. \A lines \in Seq(OtherLine) : lines \in Seq(FileLine)
    BY SeqMonotonic DEF OtherLine
  <2>2. QED
    BY <2>1, PartsOfImage
<1>3. c1 \in Configs /\ c2 \in Configs /\ c3 \in Configs /\ c4 \in Configs
  BY <1>1, <1>2, EmptySeq DEF Configs, EmptyConfig
<1>4. Reading(EmptyConfig, ns) = c1
  <2>1. EmptyConfig.nameserver = <<>> /\ <<>> \o c.nameserver = c.nameserver /\ EmptyConfig.nameserver \in Seq(Addresses)
    BY <1>1, ConcatEmptySeq, EmptySeq DEF EmptyConfig
  <2>2. Reading(EmptyConfig, ns) = [EmptyConfig EXCEPT !["nameserver"] = @ \o c.nameserver]
    BY <1>1, <2>1, ReadingWords, ParseTypes
  <2>3. QED
    BY <2>1, <2>2
<1>5. Reading(c1, dom) = c2
  <2>1. CASE c.domain = None
    <3>1. c2 = c1
      <4>1. c1.domain = c.domain
        BY <2>1 DEF EmptyConfig
      <4> HIDE DEF c1
      <4>2. QED
        BY <1>3, <4>1 DEF Configs
    <3>2. dom = <<>>
      BY <2>1
    <3>3. QED
      BY <3>1, <3>2, ReadingEmpty
  <2>2. CASE c.domain # None
    <3> DEFINE l == Line("domain", c.domain)
    <3>1. dom = Append(<<>>, l) /\ <<>> \in Seq({l}) /\ l \in {l}
      BY <2>2
    <3>2. l.kind = "domain" /\ l.words[1] = c.domain
      BY DEF Line
    <3> HIDE DEF dom, l, c1
    <3>3. Reading(c1, dom) = WithLine(Reading(c1, <<>>), l)
      BY <3>1, ReadingAppend
    <3>4. Reading(c1, <<>>) = c1
      BY ReadingEmpty
    <3>5. QED
      BY <3>2, <3>3, <3>4 DEF WithLine
  <2>3. QED
    BY <2>1, <2>2
<1>6. Reading(c2, srch) = c3
  <2>1. c2.search = <<>> /\ <<>> \o c.search = c.search /\ c2.search \in Seq(Domains)
    BY <1>1, ConcatEmptySeq, EmptySeq DEF EmptyConfig
  <2>2. Reading(c2, srch) = [c2 EXCEPT !["search"] = @ \o c.search]
    <3> HIDE DEF c2
    <3>1. QED
      BY <1>1, <1>3, <2>1, ReadingWords
  <2>3. QED
    BY <2>1, <2>2
<1>7. Reading(c3, bare) = c4
  <2>1. c3.others = <<>> /\ <<>> \o bare = bare
    BY <1>2, ConcatEmptySeq, EmptySeq DEF EmptyConfig
  <2>2. Reading(c3, bare) = [c3 EXCEPT !.others = @ \o bare]
    <3> HIDE DEF c3, bare
    <3>1. QED
      BY <1>2, <1>3, ReadingOthers
  <2>3. QED
    BY <2>1, <2>2
<1>8. Reading(c4, c.others) = c5
  <2>1. c4.others = bare
    BY DEF EmptyConfig
  <2>2. Reading(c4, c.others) = [c4 EXCEPT !.others = @ \o c.others]
    <3> HIDE DEF c4, bare
    <3>1. QED
      BY <1>1, <1>3, ReadingOthers
  <2>3. [c4 EXCEPT !.others = @ \o c.others] = c5
    BY <2>1
  <2>4. QED
    BY <2>2, <2>3
<1>9. c5 = [c EXCEPT !.sortlist = <<>>, !.others = bare \o @]
  <2> DEFINE all == bare \o c.others
             back == [c EXCEPT !.sortlist = <<>>, !.others = bare \o @]
  <2>1. all \in Seq(OtherLine)
    BY <1>1, <1>2, ConcatProperties
  <2>2. /\ c5.nameserver = c.nameserver /\ c5.domain = c.domain /\ c5.search = c.search
        /\ c5.sortlist = <<>> /\ c5.others = all
    BY DEF EmptyConfig
  <2>3. c5 \in Configs
    <3> HIDE DEF c4, all
    <3>1. [c4 EXCEPT !.others = all] \in Configs
      BY <1>3, <2>1 DEF Configs
    <3>2. QED
      BY <3>1 DEF all
  <2> HIDE DEF c5, bare
  <2>4. back = [nameserver |-> c.nameserver, domain |-> c.domain, search |-> c.search,
             sortlist |-> <<>>, others |-> all]
    <3> DEFINE mid == [c EXCEPT !.sortlist = <<>>]
    <3>1. mid \in Configs
      BY EmptySeq DEF Configs
    <3>2. /\ mid.nameserver = c.nameserver /\ mid.domain = c.domain /\ mid.search = c.search
          /\ mid.sortlist = <<>> /\ mid.others = c.others
      BY DEF Configs
    <3>3. back = [mid EXCEPT !.others = all]
      BY <3>2
    <3> HIDE DEF mid, back, all
    <3>4. back \in Configs
      BY <2>1, <3>1, <3>3 DEF Configs
    <3>5. /\ back.nameserver = c.nameserver /\ back.domain = c.domain /\ back.search = c.search
          /\ back.sortlist = <<>> /\ back.others = all
      BY <3>1, <3>2, <3>3 DEF Configs
    <3>6. back = [nameserver |-> back.nameserver, domain |-> back.domain, search |-> back.search,
                  sortlist |-> back.sortlist, others |-> back.others]
      BY <3>4 DEF Configs
    <3>7. QED
      BY <3>5, <3>6
  <2>5. c5 = [nameserver |-> c5.nameserver, domain |-> c5.domain, search |-> c5.search,
              sortlist |-> c5.sortlist, others |-> c5.others]
    BY <2>3 DEF Configs
  <2>6. QED
    BY <2>2, <2>4, <2>5
<1>10. Parse(ConfigImage(c)) = Reading(EmptyConfig, (((ns \o dom) \o srch) \o bare) \o c.others)
  BY DEF Parse, ConfigImage
<1> HIDE DEF ns, dom, srch, bare, c1, c2, c3, c4, c5
<1>11. (ns \o dom) \in Seq(FileLine) /\ Reading(EmptyConfig, ns \o dom) = c2
  BY <1>2, <1>4, <1>5, ReadingConcat, ConcatProperties
<1>12. ((ns \o dom) \o srch) \in Seq(FileLine) /\ Reading(EmptyConfig, (ns \o dom) \o srch) = c3
  <2> DEFINE first == ns \o dom
  <2> HIDE DEF first
  <2>1. first \in Seq(FileLine) /\ Reading(EmptyConfig, first) = c2
    BY <1>11 DEF first
  <2>2. first \o srch \in Seq(FileLine) /\ Reading(EmptyConfig, first \o srch) = c3
    BY <1>2, <1>6, <2>1, ReadingConcat, ConcatProperties
  <2>3. QED
    BY <2>2 DEF first
<1>13. /\ (((ns \o dom) \o srch) \o bare) \in Seq(FileLine)
       /\ Reading(EmptyConfig, ((ns \o dom) \o srch) \o bare) = c4
  <2> DEFINE first == (ns \o dom) \o srch
  <2> HIDE DEF first
  <2>1. first \in Seq(FileLine) /\ Reading(EmptyConfig, first) = c3
    BY <1>12 DEF first
  <2>2. first \o bare \in Seq(FileLine) /\ Reading(EmptyConfig, first \o bare) = c4
    BY <1>2, <1>7, <2>1, ReadingConcat, ConcatProperties
  <2>3. QED
    BY <2>2 DEF first
<1>14. Reading(EmptyConfig, (((ns \o dom) \o srch) \o bare) \o c.others) = c5
  <2> DEFINE first == ((ns \o dom) \o srch) \o bare
             last == c.others
  <2>0. last \in Seq(FileLine) /\ Reading(c4, last) = c5
    BY <1>2, <1>8
  <2> HIDE DEF first, last
  <2>1. first \in Seq(FileLine) /\ Reading(EmptyConfig, first) = c4
    BY <1>13 DEF first
  <2>2. Reading(EmptyConfig, first \o last) = c5
    BY <2>0, <2>1, ReadingConcat
  <2>3. QED
    BY <2>2 DEF first, last
<1>15. QED
  BY <1>9, <1>10, <1>14 DEF bare

-----------------------------------------------------------------------------
(* DnsConfig: the sessions.                                                *)

\* The arguments of setNameserver that take effect name servers or keep them.
LEMMA Effective ==
    ASSUME NEW args \in Seq(Arguments)
    PROVE  InEffect(args) \in Seq(Addresses \union {Keep})
<1> DEFINE I == {i \in 1 .. Len(args) : args[i] = Unknown}
           unknown == SelectInSeq(args, LAMBDA x : x = Unknown)
           known == IF unknown = 0 THEN args ELSE SubSeq(args, 1, unknown - 1)
           T == Addresses \union {Keep}
           m == IF Len(known) < MaxNameserver THEN Len(known) ELSE MaxNameserver
<1>1. Len(args) \in Nat /\ \A i \in 1 .. Len(args) : args[i] \in Arguments
  BY LenProperties, ElementOfSeq
<1>2. unknown = IF I # {} THEN Min(I) ELSE 0
  BY DEF SelectInSeq
<1>3. InEffect(args) = SubSeq(known, 1, m)
  BY DEF InEffect
<1>4. known \in Seq(T)
  <2>1. CASE I = {}
    <3>1. known = args
      BY <1>2, <2>1
    <3>2. \A i \in 1 .. Len(args) : args[i] \in T
      BY <1>1, <2>1 DEF Arguments
    <3>3. args \in [1 .. Len(args) -> T]
      BY <3>2, LenProperties
    <3>4. args \in Seq(T)
      BY <1>1, <3>3
    <3> HIDE DEF known, T
    <3>5. QED
      BY <3>1, <3>4
  <2>2. CASE I # {}
    <3>1. I \in SUBSET Nat
      BY <1>1
    <3>2. Min(I) \in I /\ \A y \in I : Min(I) <= y
      <4> HIDE DEF I
      <4>1. QED
        BY <2>2, <3>1, LeastNumber
    <3> DEFINE n == Min(I)
    <3>3. n \in 1 .. Len(args) /\ \A i \in 1 .. Len(args) : args[i] = Unknown => n <= i
      BY <3>2
    <3>4. unknown = n
      BY <1>2, <2>2
    <3> HIDE DEF n, unknown, I
    <3>5. known = SubSeq(args, 1, n - 1)
      BY <3>3, <3>4
    <3>6. \A i \in 1 .. (n - 1) : args[i] \in T
      BY <1>1, <3>3 DEF Arguments
    <3>7. SubSeq(args, 1, n - 1) \in Seq(T)
      BY <3>3, <3>6, SubSeqProperties
    <3>8. QED
      BY <3>5, <3>7
  <2>3. QED
    BY <2>1, <2>2
<1> HIDE DEF known, T
<1>5. m \in Int /\ \A i \in 1 .. m : known[i] \in T
  <2>1. Len(known) \in Nat /\ \A i \in 1 .. Len(known) : known[i] \in T
    BY <1>4, LenProperties, ElementOfSeq
  <2>2. QED
    BY <2>1, DnsAssumption DEF DnsAssumption
<1> HIDE DEF m
<1>6. SubSeq(known, 1, m) \in Seq(T)
  BY <1>5, SubSeqProperties
<1>7. QED
  BY <1>3, <1>6 DEF T

\* The objects and files, and a save that no other overlaps.
ResolvInv ==
    /\ DnsTypeOK
    /\ ~garbled => /\ \A s, t \in Saving : s = t
                   /\ \A s \in Saving : file \o todo[s] = ConfigImage(config[s])

LEMMA ResolvTypes ==
    ASSUME DnsTypeOK, NEW s \in Sessions
    PROVE  /\ config[s] \in Configs
           /\ \A x \in Configs : [config EXCEPT ![s] = x] \in [Sessions -> Configs]
BY DEF DnsTypeOK, Configs

\* The edits keep the lists what they are.
LEMMA EditPreserved ==
    ASSUME ResolvInv, NEW s \in Sessions, pc[s] # "saving", NEW x \in Configs,
           config' = [config EXCEPT ![s] = x], UNCHANGED <<file, garbled, todo>>,
           NEW p \in {"idle", "loaded", "command"}, pc' = [pc EXCEPT ![s] = p]
    PROVE  ResolvInv'
<1>1. DnsTypeOK'
  BY DEF ResolvInv, DnsTypeOK, Configs
<1>2. Saving' = Saving /\ \A t \in Saving : config'[t] = config[t]
  BY DEF Saving, ResolvInv, DnsTypeOK
<1>3. QED
  BY <1>1, <1>2 DEF ResolvInv

LEMMA EditTypes ==
    ASSUME DnsTypeOK, NEW s \in Sessions,
           \/ AddNameserver(s) \/ RemoveNameserver(s) \/ SetDomain(s) \/ AddSearch(s)
           \/ RemoveSearch(s) \/ AddSortlist(s) \/ RemoveSortlist(s)
    PROVE  /\ pc[s] = "loaded" /\ UNCHANGED <<file, garbled, pc, todo>>
           /\ \E x \in Configs : config' = [config EXCEPT ![s] = x]
<1> DEFINE c == config[s]
<1>1. c \in Configs /\ config \in [Sessions -> Configs]
  BY DEF DnsTypeOK, Configs
<1>2. /\ c.nameserver \in Seq(Addresses) /\ c.search \in Seq(Domains) /\ c.sortlist \in Seq(Addresses)
  BY <1>1 DEF Configs
<1>3. ASSUME NEW v \in Seq(Addresses), Edit(s, "nameserver", v)
      PROVE  config' = [config EXCEPT ![s] = [c EXCEPT !.nameserver = v]] /\ [c EXCEPT !.nameserver = v] \in Configs
  BY <1>1, <1>3 DEF Edit, Configs
<1>4. ASSUME NEW v \in Seq(Domains), Edit(s, "search", v)
      PROVE  config' = [config EXCEPT ![s] = [c EXCEPT !.search = v]] /\ [c EXCEPT !.search = v] \in Configs
  BY <1>1, <1>4 DEF Edit, Configs
<1>5. ASSUME NEW v \in Seq(Addresses), Edit(s, "sortlist", v)
      PROVE  config' = [config EXCEPT ![s] = [c EXCEPT !.sortlist = v]] /\ [c EXCEPT !.sortlist = v] \in Configs
  BY <1>1, <1>5 DEF Edit, Configs
<1>6. ASSUME NEW v \in Domains \union {None}, Edit(s, "domain", v)
      PROVE  config' = [config EXCEPT ![s] = [c EXCEPT !.domain = v]] /\ [c EXCEPT !.domain = v] \in Configs
  BY <1>1, <1>6 DEF Edit, Configs
<1> HIDE DEF c
<1> DEFINE Done == \E x \in Configs : config' = [config EXCEPT ![s] = x]
<1>7. CASE AddNameserver(s)
  <2>1. PICK a \in Addresses, i \in 1 .. Len(c.nameserver) + 1 :
             Edit(s, "nameserver", InsertAt(c.nameserver, i, a))
    BY <1>7 DEF AddNameserver, c
  <2>2. InsertAt(c.nameserver, i, a) \in Seq(Addresses)
    BY <1>2, Edited
  <2>3. QED
    BY <1>3, <2>1, <2>2 DEF Edit
<1>8. CASE RemoveNameserver(s)
  <2>1. PICK v \in Seq(Addresses) : Edit(s, "nameserver", v)
    BY <1>2, <1>8, Edited, EmptySeq DEF RemoveNameserver, c
  <2>2. QED
    BY <1>3, <2>1 DEF Edit
<1>9. CASE SetDomain(s)
  BY <1>6, <1>9 DEF SetDomain, Edit
<1>10. CASE AddSearch(s)
  <2>1. PICK a \in Domains, i \in 1 .. Len(c.search) + 1 : Edit(s, "search", InsertAt(c.search, i, a))
    BY <1>10 DEF AddSearch, c
  <2>2. InsertAt(c.search, i, a) \in Seq(Domains)
    BY <1>2, Edited
  <2>3. QED
    BY <1>4, <2>1, <2>2 DEF Edit
<1>11. CASE RemoveSearch(s)
  <2>1. PICK v \in Seq(Domains) : Edit(s, "search", v)
    BY <1>2, <1>11, Edited, EmptySeq DEF RemoveSearch, c
  <2>2. QED
    BY <1>4, <2>1 DEF Edit
<1>12. CASE AddSortlist(s)
  <2>1. PICK a \in Addresses, i \in 1 .. Len(c.sortlist) + 1 :
             Edit(s, "sortlist", InsertAt(c.sortlist, i, a))
    BY <1>12 DEF AddSortlist, c
  <2>2. InsertAt(c.sortlist, i, a) \in Seq(Addresses)
    BY <1>2, Edited
  <2>3. QED
    BY <1>5, <2>1, <2>2 DEF Edit
<1>13. CASE RemoveSortlist(s)
  <2>1. PICK v \in Seq(Addresses) : Edit(s, "sortlist", v)
    <3>1. \A i \in DOMAIN c.sortlist : RemoveAt(c.sortlist, i) \in Seq(Addresses)
      BY <1>2, RemoveAtProperties, LenProperties
    <3>2. QED
      BY <1>13, <3>1, EmptySeq DEF RemoveSortlist, c
  <2>2. QED
    BY <1>5, <2>1 DEF Edit
<1>14. QED
  BY <1>7, <1>8, <1>9, <1>10, <1>11, <1>12, <1>13

\* What setNameserver makes of the file's object.
LEMMA CommandTypes ==
    ASSUME ResolvInv, NEW s \in Sessions, SetNameserver(s)
    PROVE  \E x \in Configs : config' = [config EXCEPT ![s] = x]
<1>1. PICK given \in BoundedSeq(Arguments, MaxNameserver + 1) \ {<<>>} :
           LET old == Parse(file)
               args == InEffect(given)
           IN  /\ \A i \in DOMAIN args : args[i] = Keep => i <= Len(old.nameserver)
               /\ config' = [config EXCEPT
                      ![s] = [old EXCEPT !.nameserver = Wanted(args, old.nameserver)]]
  BY DEF SetNameserver
<1> DEFINE old == Parse(file)
           args == InEffect(given)
<1>2. given \in Seq(Arguments)
  BY DnsAssumption DEF DnsAssumption, BoundedSeq, SeqOf
<1>3. args \in Seq(Addresses \union {Keep})
  BY <1>2, Effective
<1>4. old \in Configs
  BY ParseTypes DEF ResolvInv, DnsTypeOK
<1> HIDE DEF old, args
<1>5. old.nameserver \in Seq(Addresses)
  BY <1>4 DEF Configs
<1>6. /\ Len(args) \in Nat /\ DOMAIN args = 1 .. Len(args)
      /\ \A i \in DOMAIN args : args[i] \in Addresses \union {Keep}
  BY <1>3, LenProperties, ElementOfSeq
<1>7. \A i \in DOMAIN args : args[i] = Keep => old.nameserver[i] \in Addresses
  <2>1. \A i \in DOMAIN args : args[i] = Keep => i \in 1 .. Len(old.nameserver)
    BY <1>1, <1>5, <1>6, LenProperties DEF old, args
  <2>2. QED
    BY <1>5, <2>1, ElementOfSeq
<1>8. \A i \in DOMAIN args : Wanted(args, old.nameserver)[i] \in Addresses
  BY <1>6, <1>7 DEF Wanted
<1>9. Wanted(args, old.nameserver) \in Seq(Addresses)
  <2> DEFINE wanted == Wanted(args, old.nameserver)
  <2>1. wanted = [i \in 1 .. Len(args) |-> wanted[i]]
    BY <1>6 DEF Wanted
  <2> HIDE DEF wanted
  <2>2. wanted \in [1 .. Len(args) -> Addresses]
    BY <1>6, <1>8, <2>1 DEF wanted
  <2>3. QED
    BY <1>6, <2>2 DEF wanted
<1>10. [old EXCEPT !.nameserver = Wanted(args, old.nameserver)] \in Configs
  BY <1>4, <1>9 DEF Configs
<1>11. QED
  BY <1>1, <1>10 DEF old, args

LEMMA ResolvInit == DnsInit => ResolvInv
<1> SUFFICES ASSUME DnsInit PROVE ResolvInv
  OBVIOUS
<1>1. DnsTypeOK
  BY ParseTypes, EmptySeq, DnsAssumption DEF DnsAssumption, DnsInit, DnsTypeOK, Configs
<1>2. Saving = {}
  BY DEF DnsInit, Saving
<1>3. QED
  BY <1>1, <1>2 DEF ResolvInv

\* No step of a session breaks ResolvInv: opening the file while another save
\* is under way sets garbled, and nobody touches the object of a save.
LEMMA SessionPreserved ==
    ASSUME ResolvInv, NEW s \in Sessions, SessionStep(s)
    PROVE  ResolvInv'
<1>1. /\ config \in [Sessions -> Configs] /\ pc \in [Sessions -> {"idle", "loaded", "command", "saving"}]
      /\ file \in Seq(FileLine) /\ todo \in [Sessions -> Seq(FileLine)]
  BY DEF ResolvInv, DnsTypeOK, Configs
<1>2. CASE GetConfig(s)
  <2>1. Parse(file) \in Configs
    BY <1>1, ParseTypes
  <2>2. QED
    BY <1>2, <2>1, EditPreserved DEF GetConfig
<1>3. CASE \/ AddNameserver(s) \/ RemoveNameserver(s) \/ SetDomain(s) \/ AddSearch(s)
           \/ RemoveSearch(s) \/ AddSortlist(s) \/ RemoveSortlist(s)
  <2>1. /\ pc[s] = "loaded" /\ UNCHANGED <<file, garbled, pc, todo>>
        /\ \E x \in Configs : config' = [config EXCEPT ![s] = x]
    BY <1>3, EditTypes DEF ResolvInv
  <2>2. pc' = [pc EXCEPT ![s] = "loaded"]
    BY <1>1, <2>1
  <2>3. QED
    BY <2>1, <2>2, EditPreserved
<1>4. CASE SetNameserver(s)
  <2>1. \E x \in Configs : config' = [config EXCEPT ![s] = x]
    BY <1>4, CommandTypes
  <2>2. /\ pc[s] = "idle" /\ pc' = [pc EXCEPT ![s] = "command"]
        /\ UNCHANGED <<file, garbled, todo>>
    BY <1>4 DEF SetNameserver
  <2>3. QED
    BY <2>1, <2>2, EditPreserved
<1>5. CASE DnsSaveOpen(s)
  <2>1. ConfigImage(config[s]) \in Seq(FileLine)
    BY <1>1, ImageTypes
  <2>2. DnsTypeOK'
    BY <1>1, <1>5, <2>1, EmptySeq DEF DnsSaveOpen, DnsTypeOK, Configs
  <2>3. ~garbled' => Saving' = {s}
    BY <1>1, <1>5 DEF DnsSaveOpen, Saving
  <2>4. file' \o todo'[s] = ConfigImage(config'[s])
    BY <1>1, <1>5, <2>1, ConcatEmptySeq DEF DnsSaveOpen
  <2>5. QED
    BY <2>2, <2>3, <2>4 DEF ResolvInv
<1>6. CASE DnsSaveFails(s)
  <2>1. pc[s] # "saving"
    BY <1>6 DEF DnsSaveFails
  <2>2. QED
    BY <1>6, <2>1, ParseTypes, EditPreserved DEF DnsSaveFails
<1>7. CASE SaveLine(s)
  <2> DEFINE head == Head(todo[s])
             tail == Tail(todo[s])
  <2>1. head \in FileLine /\ tail \in Seq(FileLine) /\ todo[s] = <<head>> \o tail
    <3>1. todo[s] \in Seq(FileLine) /\ todo[s] # <<>>
      BY <1>1, <1>7 DEF SaveLine
    <3>2. QED
      BY <3>1, HeadTailProperties
  <2> HIDE DEF head, tail
  <2>2. /\ pc[s] = "saving" /\ UNCHANGED <<garbled, pc, config>>
        /\ file' = IF garbled THEN file ELSE Append(file, head)
        /\ todo' = [todo EXCEPT ![s] = tail]
    BY <1>7 DEF SaveLine, head, tail
  <2>3. DnsTypeOK'
    BY <1>1, <2>1, <2>2 DEF ResolvInv, DnsTypeOK, Configs
  <2>4. ASSUME ~garbled' PROVE file' \o todo'[s] = file \o todo[s]
    <3>1. file' = file \o <<head>> /\ todo'[s] = tail /\ <<head>> \in Seq(FileLine)
      BY <1>1, <2>1, <2>2, <2>4, AppendIsConcat
    <3>2. (file \o <<head>>) \o tail = file \o (<<head>> \o tail)
      BY <1>1, <2>1, <3>1, ConcatAssociative
    <3>3. QED
      BY <2>1, <3>1, <3>2
  <2>5. Saving' = Saving /\ s \in Saving
    BY <2>2 DEF Saving
  <2>6. QED
    BY <2>2, <2>3, <2>4, <2>5 DEF ResolvInv
<1>8. CASE SaveClose(s)
  <2>1. DnsTypeOK'
    BY <1>1, <1>8, ParseTypes DEF SaveClose, ResolvInv, DnsTypeOK, Configs
  <2>2. /\ Saving' = Saving \ {s} /\ \A t \in Saving' : config'[t] = config[t]
        /\ UNCHANGED <<file, garbled, todo>>
    BY <1>1, <1>8 DEF SaveClose, Saving
  <2>3. QED
    BY <2>1, <2>2 DEF ResolvInv
<1>9. QED
  BY <1>2, <1>3, <1>4, <1>5, <1>6, <1>7, <1>8 DEF SessionStep

LEMMA ResolvPreserved == ResolvInv /\ [DnsNext]_dnsVars => ResolvInv'
<1> SUFFICES ASSUME ResolvInv, [DnsNext]_dnsVars PROVE ResolvInv'
  OBVIOUS
<1>1. CASE \E s \in Sessions : SessionStep(s)
  BY <1>1, SessionPreserved
<1>2. CASE DnsCrash
  <2>1. DnsTypeOK'
    BY <1>2, ParseTypes, EmptySeq DEF DnsCrash, ResolvInv, DnsTypeOK, Configs
  <2>2. Saving' = {}
    BY <1>2 DEF DnsCrash, Saving
  <2>3. QED
    BY <2>1, <2>2 DEF ResolvInv
<1>3. CASE UNCHANGED dnsVars
  BY <1>3 DEF dnsVars, ResolvInv, DnsTypeOK, Saving
<1>4. QED
  BY <1>1, <1>2, <1>3 DEF DnsNext

\* The file, the objects and the lines still to print are what they are called.
THEOREM ResolvConfTypes == DnsSpec => []DnsTypeOK
<1>1. ResolvInv => DnsTypeOK
  BY DEF ResolvInv
<1>2. QED
  BY <1>1, ResolvInit, ResolvPreserved, PTL DEF DnsSpec

\* However the sessions' steps and the ends of the process are ordered: while no
\* other save overlaps it, a save has written a beginning of its object's lines
\* and has the rest before it.
THEOREM SaveIsOfItsObject == DnsSpec => []SaveWritesItsObject
<1>1. ResolvInv => SaveWritesItsObject
  BY DEF ResolvInv, SaveWritesItsObject
<1>2. QED
  BY <1>1, ResolvInit, ResolvPreserved, PTL DEF DnsSpec

\* What getConfig makes of what save wrote is the object but for the sort list,
\* and is written the same again.
THEOREM OnlySortlistIsLost == DnsSpec => []ReloadLosesOnlySortlist
<1>1. ResolvInv => ReloadLosesOnlySortlist
  <2> SUFFICES ASSUME NEW c \in Configs
               PROVE  LET again == Parse(ConfigImage(c)) IN
                      /\ again = [c EXCEPT !.sortlist = <<>>,
                                           !.others = LinesOf("bare", c.sortlist) \o @]
                      /\ ConfigImage(again) = ConfigImage(c)
    BY DEF ResolvInv, DnsTypeOK, Configs, ReloadLosesOnlySortlist
  <2> DEFINE again == Parse(ConfigImage(c))
             bare == LinesOf("bare", c.sortlist)
             ns == LinesOf("nameserver", c.nameserver)
             dom == IF c.domain = None THEN <<>> ELSE <<Line("domain", c.domain)>>
             srch == LinesOf("search", c.search)
             front == (ns \o dom) \o srch
             last == c.others
  <2>1. again = [c EXCEPT !.sortlist = <<>>, !.others = bare \o @]
    BY ReadBack
  <2>2. /\ again.nameserver = c.nameserver /\ again.domain = c.domain /\ again.search = c.search
        /\ again.sortlist = <<>> /\ again.others = bare \o last
    <3> HIDE DEF again, bare
    <3>1. QED
      BY <2>1 DEF Configs
  <2>3. /\ bare \in Seq(FileLine) /\ last \in Seq(FileLine) /\ front \in Seq(FileLine)
    <3>1. \A lines \in Seq(OtherLine) : lines \in Seq(FileLine)
      BY SeqMonotonic DEF OtherLine
    <3>2. QED
      BY <3>1, PartsOfImage, ConcatProperties
  <2>4. ConfigImage(c) = (front \o bare) \o last
    BY DEF ConfigImage
  <2>5. LinesOf("bare", <<>>) = <<>>
    BY DEF LinesOf
  <2>6. ConfigImage(again) = (front \o <<>>) \o (bare \o last)
    <3> HIDE DEF again
    <3>1. QED
      BY <2>2, <2>5 DEF ConfigImage
  <2> HIDE DEF front, bare, last, again
  <2>7. ConfigImage(again) = ConfigImage(c)
    BY <2>3, <2>4, <2>6, ConcatEmptySeq, ConcatAssociative
  <2>8. QED
    BY <2>1, <2>7 DEF again, bare
<1>2. QED
  BY <1>1, ResolvInit, ResolvPreserved, PTL DEF DnsSpec
=============================================================================
