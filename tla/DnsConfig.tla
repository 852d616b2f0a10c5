------------------------------ MODULE DnsConfig ------------------------------
(***************************************************************************)
(* DnsConfig.java of araqne-linux-api: /etc/resolv.conf is read into an    *)
(* object, the object is edited, and save() truncates the file and writes  *)
(* the object back line by line; and LinuxApiScript.setNameserver, which   *)
(* does all three in one command.  Several sessions do this at the same    *)
(* time, no lock is taken, and the process may end between two lines.      *)
(*                                                                         *)
(* A line is its first word and the rest of its words.  A line of one word *)
(* has kind "bare", a line with an unknown first word kind "other".        *)
(***************************************************************************)
EXTENDS Naturals, Sequences, SequencesExt

CONSTANTS
    Sessions,       \* script sessions, each with its own DnsConfig object
    Addresses,      \* addresses of name servers, and of sort list entries
    Domains,        \* domain names
    ResolvFiles,    \* contents the file may start with
    MaxNameserver,  \* 3 in addNameserver
    MaxSearch,      \* 6 in addSearch
    MaxUnkept       \* bound: sort list entries and other lines of an object

VARIABLES
    file,       \* the lines of /etc/resolv.conf
    garbled,    \* two saves overlapped; file no longer says what is in it
    pc,         \* pc[s]: what session s is doing
    config,     \* config[s]: its DnsConfig object
    todo        \* todo[s]: lines that its save() has yet to print

dnsVars == <<file, garbled, pc, config, todo>>

None == "none"   \* a null domain
Keep == "."      \* setNameserver: leave the name server of this position
Unknown == "?"   \* setNameserver: a name that does not resolve

Kinds == {"nameserver", "domain", "search", "sortlist", "bare", "other"}
Line(kind, word) == [kind |-> kind, words |-> <<word>>]
EmptyConfig == [nameserver |-> <<>>, domain |-> None, search |-> <<>>,
                sortlist |-> <<>>, others |-> <<>>]

FileLine ==
    {line \in [kind : Kinds, words : Seq(Addresses \union Domains) \ {<<>>}] :
        /\ line.kind \in {"nameserver", "sortlist"} => line.words[1] \in Addresses
        /\ line.kind \in {"domain", "search"} => line.words[1] \in Domains}

ASSUME DnsAssumption ==
    /\ MaxNameserver \in Nat \ {0}
    /\ MaxSearch \in Nat \ {0}
    /\ MaxUnkept \in Nat
    /\ None \notin Domains
    /\ ResolvFiles \subseteq Seq(FileLine)

DnsInit ==
    /\ file \in ResolvFiles
    /\ garbled = FALSE
    /\ pc = [s \in Sessions |-> "idle"]
    /\ config = [s \in Sessions |-> EmptyConfig]
    /\ todo = [s \in Sessions |-> <<>>]

-----------------------------------------------------------------------------
(* The file as an object, and the object as a file.                        *)

\* An object that has read one more line: of a line that it knows, the first
\* word.  A second domain line replaces the first.
WithLine(c, line) ==
    CASE line.kind = "nameserver" -> [c EXCEPT !.nameserver = Append(@, line.words[1])]
      [] line.kind = "domain"     -> [c EXCEPT !.domain = line.words[1]]
      [] line.kind = "search"     -> [c EXCEPT !.search = Append(@, line.words[1])]
      [] line.kind = "sortlist"   -> [c EXCEPT !.sortlist = Append(@, line.words[1])]
      [] OTHER                    -> [c EXCEPT !.others = Append(@, line)]

\* The object after the lines.
Reading(c, lines) ==
    LET after[n \in 0 .. Len(lines)] ==
            IF n = 0 THEN c ELSE WithLine(after[n - 1], lines[n])
    IN  after[Len(lines)]

Parse(lines) == Reading(EmptyConfig, lines)

LinesOf(kind, words) == [i \in DOMAIN words |-> Line(kind, words[i])]

\* Faulty ConfigImage: the other lines of the file are dropped.
ConfigImageWithoutOthers(c) ==
    LinesOf("nameserver", c.nameserver)
        \o (IF c.domain = None THEN <<>> ELSE <<Line("domain", c.domain)>>)
        \o LinesOf("search", c.search)
        \o LinesOf("bare", c.sortlist)

\* save() prints a sort list entry without its keyword.
ConfigImage(c) ==
    LinesOf("nameserver", c.nameserver)
        \o (IF c.domain = None THEN <<>> ELSE <<Line("domain", c.domain)>>)
        \o LinesOf("search", c.search)
        \o LinesOf("bare", c.sortlist)
        \o c.others

-----------------------------------------------------------------------------
(* getConfig and the edits.                                                *)

GetConfig(s) ==
    /\ pc[s] = "idle"
    /\ ~garbled
    /\ config' = [config EXCEPT ![s] = Parse(file)]
    /\ pc' = [pc EXCEPT ![s] = "loaded"]
    /\ UNCHANGED <<file, garbled, todo>>

Edit(s, field, value) ==
    /\ pc[s] = "loaded"
    /\ config' = [config EXCEPT ![s][field] = value]
    /\ UNCHANGED <<file, garbled, pc, todo>>

\* addNameserver(index, a) and addNameserver(a); at the limit it throws.
AddNameserver(s) ==
    /\ Len(config[s].nameserver) # MaxNameserver
    /\ \E a \in Addresses, i \in 1 .. Len(config[s].nameserver) + 1 :
           Edit(s, "nameserver", InsertAt(config[s].nameserver, i, a))

RemoveNameserver(s) ==
    \/ \E a \in Addresses : Edit(s, "nameserver", RemoveFirst(config[s].nameserver, a))
    \/ Edit(s, "nameserver", <<>>)

SetDomain(s) == \E d \in Domains \union {None} : Edit(s, "domain", d)

AddSearch(s) ==
    /\ Len(config[s].search) # MaxSearch
    /\ \E d \in Domains, i \in 1 .. Len(config[s].search) + 1 :
           Edit(s, "search", InsertAt(config[s].search, i, d))

RemoveSearch(s) ==
    \/ \E d \in Domains : Edit(s, "search", RemoveFirst(config[s].search, d))
    \/ Edit(s, "search", <<>>)

AddSortlist(s) ==
    /\ Len(config[s].sortlist) + Len(config[s].others) < MaxUnkept
    /\ \E a \in Addresses, i \in 1 .. Len(config[s].sortlist) + 1 :
           Edit(s, "sortlist", InsertAt(config[s].sortlist, i, a))

RemoveSortlist(s) ==
    \/ \E i \in DOMAIN config[s].sortlist :
           Edit(s, "sortlist", RemoveAt(config[s].sortlist, i))
    \/ Edit(s, "sortlist", <<>>)

-----------------------------------------------------------------------------
(* save().                                                                 *)

Saving == {s \in Sessions : pc[s] = "saving"}

\* new PrintStream truncates the file.
DnsSaveOpen(s) ==
    /\ pc[s] \in {"loaded", "command"}
    /\ file' = <<>>
    /\ garbled' = (Saving # {})
    /\ todo' = [todo EXCEPT ![s] = ConfigImage(config[s])]
    /\ pc' = [pc EXCEPT ![s] = "saving"]
    /\ UNCHANGED config

\* The file cannot be opened: the exception is swallowed and save() returns.
DnsSaveFails(s) ==
    /\ pc[s] \in {"loaded", "command"}
    /\ pc' = [pc EXCEPT ![s] = "idle"]
    /\ config' = [config EXCEPT ![s] = EmptyConfig]
    /\ UNCHANGED <<file, garbled, todo>>

\* Faulty SaveLine: lines come out in reverse.
SaveLineReversed(s) ==
    /\ pc[s] = "saving"
    /\ todo[s] # <<>>
    /\ file' = <<Head(todo[s])>> \o file
    /\ todo' = [todo EXCEPT ![s] = Tail(@)]
    /\ UNCHANGED <<garbled, pc, config>>

SaveLine(s) ==
    /\ pc[s] = "saving"
    /\ todo[s] # <<>>
    /\ file' = IF garbled THEN file ELSE Append(file, Head(todo[s]))
    /\ todo' = [todo EXCEPT ![s] = Tail(@)]
    /\ UNCHANGED <<garbled, pc, config>>

\* The stream is closed and the session forgets the object.
SaveClose(s) ==
    /\ pc[s] = "saving"
    /\ todo[s] = <<>>
    /\ pc' = [pc EXCEPT ![s] = "idle"]
    /\ config' = [config EXCEPT ![s] = EmptyConfig]
    /\ UNCHANGED <<file, garbled, todo>>

\* The process of all sessions ends.
DnsCrash ==
    /\ pc' = [s \in Sessions |-> "idle"]
    /\ config' = [s \in Sessions |-> EmptyConfig]
    /\ todo' = [s \in Sessions |-> <<>>]
    /\ UNCHANGED <<file, garbled>>

-----------------------------------------------------------------------------
(* LinuxApiScript.setNameserver.                                           *)

Arguments == Addresses \union {Keep, Unknown}

\* The arguments that take effect: the first three, and none from an unknown
\* name on, because that ends the loop while what was added so far is saved.
InEffect(args) ==
    LET unknown == SelectInSeq(args, LAMBDA x : x = Unknown)
        known == IF unknown = 0 THEN args ELSE SubSeq(args, 1, unknown - 1)
    IN  SubSeq(known, 1, IF Len(known) < MaxNameserver THEN Len(known) ELSE MaxNameserver)

Wanted(args, old) == [i \in DOMAIN args |-> IF args[i] = Keep THEN old[i] ELSE args[i]]

\* A "." beyond the old list throws out of the command, before any save.
SetNameserver(s) ==
    /\ pc[s] = "idle"
    /\ ~garbled
    /\ \E given \in BoundedSeq(Arguments, MaxNameserver + 1) \ {<<>>} :
           LET old == Parse(file)
               args == InEffect(given)
           IN  /\ \A i \in DOMAIN args : args[i] = Keep => i <= Len(old.nameserver)
               /\ config' = [config EXCEPT
                      ![s] = [old EXCEPT !.nameserver = Wanted(args, old.nameserver)]]
    /\ pc' = [pc EXCEPT ![s] = "command"]
    /\ UNCHANGED <<file, garbled, todo>>

-----------------------------------------------------------------------------
SessionStep(s) ==
    \/ GetConfig(s)
    \/ AddNameserver(s)
    \/ RemoveNameserver(s)
    \/ SetDomain(s)
    \/ AddSearch(s)
    \/ RemoveSearch(s)
    \/ AddSortlist(s)
    \/ RemoveSortlist(s)
    \/ SetNameserver(s)
    \/ DnsSaveOpen(s)
    \/ DnsSaveFails(s)
    \/ SaveLine(s)
    \/ SaveClose(s)

DnsNext == DnsCrash \/ \E s \in Sessions : SessionStep(s)

DnsSpec == DnsInit /\ [][DnsNext]_dnsVars

-----------------------------------------------------------------------------
(* Properties.                                                             *)

OtherLine == {line \in FileLine : line.kind \in {"bare", "other"}}

DnsTypeOK ==
    /\ file \in Seq(FileLine)
    /\ garbled \in BOOLEAN
    /\ pc \in [Sessions -> {"idle", "loaded", "command", "saving"}]
    /\ config \in [Sessions -> [nameserver : Seq(Addresses),
                                domain     : Domains \union {None},
                                search     : Seq(Domains),
                                sortlist   : Seq(Addresses),
                                others     : Seq(OtherLine)]]
    /\ todo \in [Sessions -> Seq(FileLine)]

\* A save that no other save overlaps has written a prefix of its object and
\* is left with the rest, whatever the other sessions load and edit meanwhile:
\* a crash leaves a prefix, and a completed save the whole (save()).
SaveWritesItsObject ==
    ~garbled => \A s \in Saving : file \o todo[s] = ConfigImage(config[s])

\* What a save and the next getConfig preserve: everything but the sort list,
\* whose entries come back as other lines; saving that again changes nothing.
ReloadLosesOnlySortlist ==
    \A s \in Sessions :
        LET c == config[s]
            again == Parse(ConfigImage(c))
        IN  /\ again = [c EXCEPT !.sortlist = <<>>,
                                 !.others = LinesOf("bare", c.sortlist) \o @]
            /\ ConfigImage(again) = ConfigImage(c)

\* "Nameserver count limit is up to 3": no call of an object's methods leaves
\* the object with more name servers than that, when it had none to spare.
NameserverLimit ==
    [][\A s \in Sessions :
          pc[s] = "loaded" /\ Len(config[s].nameserver) < Len(config'[s].nameserver)
              => Len(config'[s].nameserver) <= MaxNameserver]_dnsVars
=============================================================================
