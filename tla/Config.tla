------------------------------- MODULE Config -------------------------------
(***************************************************************************)
(* The configuration file: what Load makes of it, what Save writes, and    *)
(* the `clipshare config` command, which may be killed and whose writes    *)
(* may be cut short.  A file maps each setting to the value written there. *)
(***************************************************************************)
EXTENDS Naturals, Sequences, SequencesExt

CONSTANTS
    Order,          \* the settings, in the order Save writes them
    Values,
    Unset,          \* the setting does not appear in the file
    Default,        \* of each setting
    Accepted,       \* the values of each setting that Load keeps
    Numbers,        \* settings written as bare numbers
    Unquotable,     \* strings that %q writes with an escape TOML lacks
    Garbage,        \* a file that does not parse
    UserFiles       \* what the user's editor leaves

Settings == ToSet(Order)
Legacy == "mdns"
Mdns == "discovery.mdns"

ASSUME ConfigAssumption ==
    /\ Order \in Seq(STRING) /\ IsInjective(Order)
    /\ {Legacy, Mdns} \subseteq Settings
    /\ Unset \notin Values
    /\ Accepted \in [Settings -> SUBSET Values]
    /\ Default \in [Settings -> Values]
    /\ Numbers \subseteq Settings \ {Legacy, Mdns}
    /\ \A s \in Settings : Default[s] \in Accepted[s]
    /\ Accepted[Legacy] = Accepted[Mdns] /\ Default[Legacy] = Default[Mdns]
    /\ UserFiles \subseteq [Settings -> Values \cup {Unset}] \cup {Garbage}
    /\ Garbage \notin [Settings -> Values \cup {Unset}]

Parsed == [Settings -> Values \cup {Unset}]
Empty == [s \in Settings |-> Unset]     \* also what a missing file stands for

\* Fault: a value is not checked.
TakenUnchecked(f, s) == IF f[s] = Unset THEN Default[s] ELSE f[s]
\* Load decodes the file over the defaults and puts the default in place of a
\* value it does not accept.  The mdns at the top level only counts where
\* [discovery] has none, and always follows it.
Taken(f, s) == IF f[s] \in Accepted[s] THEN f[s] ELSE Default[s]
MdnsOf(f) == IF f[Mdns] = Unset THEN Legacy ELSE Mdns
Load(f) == [s \in Settings |-> Taken(f, IF s \in {Legacy, Mdns} THEN MdnsOf(f) ELSE s)]

\* Fault: a key is missing from the template.
SavedWithout(c) == [c EXCEPT !["connection.mode"] = Unset]
\* Save writes every setting.
Saved(c) == IF \E s \in Settings : c[s] \in Unquotable THEN Garbage ELSE c

\* The first n lines of what Save writes.
Cut(c, n) == [s \in Settings |-> IF \E i \in 1..n : Order[i] = s THEN c[s] ELSE Unset]

VARIABLES
    file,       \* the configuration file
    cmd,        \* where the config command is
    held,       \* the settings it is about to write
    damaged     \* numbers a write was cut short in

configVars == <<file, cmd, held, damaged>>

ConfigTypeOK ==
    /\ file \in Parsed \cup {Garbage}
    /\ cmd \in {"idle", "loaded", "save", "write", "saved"}
    /\ held \in [Settings -> Values]
    /\ damaged \subseteq Numbers

ConfigInit ==
    /\ file \in UserFiles
    /\ cmd = "idle"
    /\ held = Default
    /\ damaged = {}

\* withConfig loads the file and sets up the log, before the command runs.
CmdLoad ==
    /\ cmd \in {"idle", "saved"}
    /\ file # Garbage
    /\ cmd' = "loaded"
    /\ UNCHANGED <<file, held, damaged>>

\* Fault: the file is decoded without the defaults.
CmdReloadRaw ==
    /\ cmd = "loaded"
    /\ file # Garbage
    /\ held' = file
    /\ cmd' = "save"
    /\ UNCHANGED <<file, damaged>>

\* The command loads it again, or takes the defaults.
CmdReload ==
    /\ cmd = "loaded"
    /\ file # Garbage
    /\ held' = Load(file)
    /\ cmd' = "save"
    /\ UNCHANGED <<file, damaged>>

CmdInit ==
    /\ cmd = "loaded"
    /\ held' = Default
    /\ cmd' = "save"
    /\ UNCHANGED <<file, damaged>>

\* Save creates, and so truncates, the file and writes it in place.
CmdTruncate ==
    /\ cmd = "save"
    /\ file' = Empty
    /\ cmd' = "write"
    /\ UNCHANGED <<held, damaged>>

CmdWrite ==
    /\ cmd = "write"
    /\ file' = Saved(held)
    /\ cmd' = "saved"
    /\ UNCHANGED <<held, damaged>>

\* A write cut short ends after a line, inside a number, or elsewhere.
CmdWriteShort ==
    /\ cmd = "write"
    /\ \E n \in 0..Len(Order) - 1 :
        LET s == Order[n + 1]
            f == Cut(held, n)
        IN  \/ file' \in {Saved(f), Garbage} /\ UNCHANGED damaged
            \/ /\ s \in Numbers
               /\ \E v \in Values : file' = Saved([f EXCEPT ![s] = v])
               /\ damaged' = damaged \cup {s}
    /\ cmd' = "idle"
    /\ UNCHANGED held

\* It fails, or is killed.
CmdEnds ==
    /\ cmd # "idle"
    /\ cmd' = "idle"
    /\ UNCHANGED <<file, held, damaged>>

Edit(f) ==
    /\ cmd \in {"idle", "loaded", "saved"}
    /\ file' = f
    /\ cmd' = IF cmd = "saved" THEN "idle" ELSE cmd
    /\ UNCHANGED <<held, damaged>>

Commands ==
    \/ CmdLoad \/ CmdReload \/ CmdInit
    \/ CmdTruncate \/ CmdWrite \/ CmdWriteShort \/ CmdEnds

\* What a setting may be if only the user, Save and cut-off writes touched the
\* file: its default, or a value Load accepts that a file of the user gives
\* it, by either name if it is mdns.
NamesOf(s) == IF s \in {Legacy, Mdns} THEN {Legacy, Mdns} ELSE {s}
Known(s) ==
    {Default[s]} \cup (Accepted[s] \cap {f[t] : f \in UserFiles \ {Garbage}, t \in NamesOf(s)})
=============================================================================
