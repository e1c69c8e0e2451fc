------------------------------- MODULE Config -------------------------------
(***************************************************************************)
(* The configuration options of soroban-rpc (config/options.go): the       *)
(* option table with its defaults, the CustomSetValue conversions of the   *)
(* options that have one, and ConfigOptions.Validate with `required` and   *)
(* the events-limit check, which the daemon relies on before it uses the   *)
(* configuration (part_002 MustNew).                                       *)
(*                                                                         *)
(* The loader that feeds the options (flags, environment, TOML file) is    *)
(* not in this snapshot.  It is modelled as a pass over the option table   *)
(* in order: each source either leaves the option at its DefaultValue or   *)
(* hands it one input, which goes through CustomSetValue when the option   *)
(* has one and is assigned as it is otherwise; then Validate runs.         *)
(* Only the options that have a CustomSetValue or a Validate, or that      *)
(* another option's Validate reads, are in the table; the others are      *)
(* assigned and never checked.                                             *)
(*                                                                         *)
(* Strings the code splits are sequences of tokens ("a", "b" and ",");     *)
(* other strings are model strings.  A []string is a record telling a nil  *)
(* slice from an empty one, which reflect's IsZero does.                   *)
(***************************************************************************)
EXTENDS Naturals, Sequences, FiniteSets

CONSTANTS
    LookPathResults,   \* exec.LookPath("stellar-core"): "" when not found
    PlainInputs,       \* strings a source may give a plain string option
    LimitInputs,       \* numbers a source may give a uint option
    LevelInputs,       \* inputs of log-level: [type, str]
    StorageInputs,     \* inputs of captive-core-storage-path: [type, str]
    ArchiveInputs,     \* inputs of history-archive-urls: [type, toks, strs]
    WindowInputs,      \* numbers UnmarshalTOML may parse for a retention window
    Cwd                \* what os.Getwd returns when it succeeds

\* The options in the order of the table in Config.options().
Order == <<"log-level", "stellar-core-binary-path", "captive-core-config-path",
           "captive-core-storage-path", "history-archive-urls",
           "network-passphrase", "event-retention-window",
           "transaction-retention-window", "max-events-limit", "default-events-limit">>

\* ConfigKey of each option: the Config field it sets.
Field == [o \in {Order[j] : j \in 1 .. Len(Order)} |->
            CASE o = "log-level"                 -> "LogLevel"
              [] o = "stellar-core-binary-path"  -> "StellarCoreBinaryPath"
              [] o = "captive-core-config-path"  -> "CaptiveCoreConfigPath"
              [] o = "captive-core-storage-path" -> "CaptiveCoreStoragePath"
              [] o = "history-archive-urls"      -> "HistoryArchiveURLs"
              [] o = "network-passphrase"        -> "NetworkPassphrase"
              [] o = "event-retention-window"    -> "EventLedgerRetentionWindow"
              [] o = "transaction-retention-window" -> "TransactionLedgerRetentionWindow"
              [] o = "max-events-limit"          -> "MaxEventsLimit"
              [] o = "default-events-limit"      -> "DefaultEventsLimit"]

\* The options assigned as they are (no CustomSetValue).
PlainStrings == {"stellar-core-binary-path", "captive-core-config-path", "network-passphrase"}
PlainUints   == {"max-events-limit", "default-events-limit"}

\* The options whose CustomSetValue is parseValue(<field>.UnmarshalTOML).
ParsedUints  == {"event-retention-window", "transaction-retention-window"}

\* The options whose Validate is `required`.
Required == {"stellar-core-binary-path", "captive-core-config-path",
             "history-archive-urls", "network-passphrase"}

NilSlice == [isNil |-> TRUE, elems |-> <<>>]
Slice(s) == [isNil |-> FALSE, elems |-> s]

\* The levels logrus.ParseLevel accepts, of those the inputs use.
ParsedLevels == {"debug", "info", "warn", "error"}

VARIABLES
    cfg,      \* the Config struct (the fields above)
    i,        \* the option the loader handles next
    phase,    \* "load", then "ok" or "invalid" after Validate, or "error"
    err       \* the option an error names, or "none"

vars == <<cfg, i, phase, err>>

---------------------------------------------------------------------------
(* The option table's DefaultValues: logrus.InfoLevel, the LookPath result, *)
(* no default for the two paths and the archives, the future network's     *)
(* passphrase, retention windows of 17280 ledgers (ledgerbucketwindow's    *)
(* DefaultEventLedgerRetentionWindow, "about 24 hours") and 1440, 10000    *)
(* and 100 events.                                                         *)
Defaults(lookPath) ==
    [LogLevel |-> "info", StellarCoreBinaryPath |-> lookPath,
     CaptiveCoreConfigPath |-> "", CaptiveCoreStoragePath |-> "",
     HistoryArchiveURLs |-> NilSlice, NetworkPassphrase |-> "future",
     EventLedgerRetentionWindow |-> 17280, TransactionLedgerRetentionWindow |-> 1440,
     MaxEventsLimit |-> 10000, DefaultEventsLimit |-> 100]

\* strings.Split(s, ","): the parts between commas, an empty one included
\* wherever two commas (or a comma and an end) meet.
RECURSIVE SplitFrom(_, _, _)
SplitFrom(t, part, parts) ==
    IF t = <<>> THEN Append(parts, part)
    ELSE IF Head(t) = "," THEN SplitFrom(Tail(t), <<>>, Append(parts, part))
    ELSE SplitFrom(Tail(t), Append(part, Head(t)), parts)

Split(t) == SplitFrom(t, <<>>, <<>>)

---------------------------------------------------------------------------
(* The loader's pass *)

\* The option being loaded, its input converted without error.
Store(field, v) ==
    /\ cfg' = [cfg EXCEPT ![field] = v]
    /\ i' = i + 1
    /\ UNCHANGED <<phase, err>>

\* CustomSetValue returned an error: loading stops with it.
Reject(o) ==
    /\ phase' = "error"
    /\ err' = o
    /\ UNCHANGED <<cfg, i>>

Loading(o) == phase = "load" /\ i <= Len(Order) /\ Order[i] = o

\* No source sets the option: it keeps its DefaultValue (or zero value).
LeaveDefault ==
    /\ phase = "load"
    /\ i <= Len(Order)
    /\ i' = i + 1
    /\ UNCHANGED <<cfg, phase, err>>

\* An option without CustomSetValue takes the value as it is.
SetPlain(o) ==
    /\ Loading(o)
    /\ \/ o \in PlainStrings /\ \E v \in PlainInputs : Store(Field[o], v)
       \/ o \in PlainUints /\ \E n \in LimitInputs : Store(Field[o], n)

\* Mutant: the ParseLevel error is ignored and the string kept.
SetLogLevelUnchecked(in) ==
    /\ Loading("log-level")
    /\ IF in.type = "string"
       THEN Store("LogLevel", in.str)
       ELSE Reject("log-level")

\* parseValue(f): the option's UnmarshalTOML parses the input into the
\* field, or its error is returned wrapped as "Could not parse <name>".
SetParsed(o) ==
    /\ Loading(o)
    /\ o \in ParsedUints
    /\ \/ \E n \in WindowInputs : Store(Field[o], n)
       \/ Reject(o)

\* log-level: a string is parsed by logrus.ParseLevel; anything else, or
\* a string that is no level, is "could not parse".
SetLogLevel(in) ==
    /\ Loading("log-level")
    /\ IF in.type = "string" /\ in.str \in ParsedLevels
       THEN Store("LogLevel", in.str)
       ELSE Reject("log-level")

\* captive-core-storage-path: "" and "." and nil mean the current
\* directory, which os.Getwd may fail to give; other strings are kept.
SetCaptiveCoreStoragePath(in) ==
    /\ Loading("captive-core-storage-path")
    /\ CASE in.type = "string" /\ in.str \notin {"", "."} ->
              Store("CaptiveCoreStoragePath", in.str)
         [] in.type \in {"string", "nil"} ->
              \/ Store("CaptiveCoreStoragePath", Cwd)
              \/ Reject("captive-core-storage-path")
         [] OTHER -> Reject("captive-core-storage-path")

\* history-archive-urls: "" gives a nil slice, another string its
\* comma-separated parts, a []string is taken as it is.
SetHistoryArchiveURLs(in) ==
    /\ Loading("history-archive-urls")
    /\ CASE in.type = "string" /\ in.toks = <<>> -> Store("HistoryArchiveURLs", NilSlice)
         [] in.type = "string"  -> Store("HistoryArchiveURLs", Slice(Split(in.toks)))
         [] in.type = "strings" -> Store("HistoryArchiveURLs", Slice(in.strs))
         [] OTHER -> Reject("history-archive-urls")

---------------------------------------------------------------------------
(* ConfigOptions.Validate *)

\* reflect.ValueOf(option.ConfigKey).Elem().IsZero(): "" for a string, a
\* nil (not an empty) slice.
IsZero(c, o) ==
    IF o = "history-archive-urls" THEN c.HistoryArchiveURLs.isNil
    ELSE c[Field[o]] = ""

\* required: the option's value is not the zero value.
required(c, o) == ~IsZero(c, o)

\* The Validate function of option o, when it has one, fails.
Fails(c, o) ==
    \/ o \in Required /\ ~required(c, o)
    \/ o = "default-events-limit" /\ c.DefaultEventsLimit > c.MaxEventsLimit

\* The loop over the options: the first failing one is returned.
RECURSIVE ValidateFrom(_, _)
ValidateFrom(c, j) ==
    IF j > Len(Order) THEN "none"
    ELSE IF Fails(c, Order[j]) THEN Order[j]
    ELSE ValidateFrom(c, j + 1)

Validate ==
    /\ phase = "load"
    /\ i > Len(Order)
    /\ err' = ValidateFrom(cfg, 1)
    /\ phase' = IF err' = "none" THEN "ok" ELSE "invalid"
    /\ UNCHANGED <<cfg, i>>

---------------------------------------------------------------------------

Init ==
    /\ \E p \in LookPathResults : cfg = Defaults(p)
    /\ i = 1
    /\ phase = "load"
    /\ err = "none"

Next ==
    \/ LeaveDefault
    \/ \E o \in PlainStrings \cup PlainUints : SetPlain(o)
    \/ \E o \in ParsedUints : SetParsed(o)
    \/ \E in \in LevelInputs : SetLogLevel(in)
    \/ \E in \in StorageInputs : SetCaptiveCoreStoragePath(in)
    \/ \E in \in ArchiveInputs : SetHistoryArchiveURLs(in)
    \/ Validate

Spec == Init /\ [][Next]_vars

---------------------------------------------------------------------------
(* Properties *)

TypeOK ==
    /\ cfg.LogLevel \in ParsedLevels
    /\ cfg.MaxEventsLimit \in Nat /\ cfg.DefaultEventsLimit \in Nat
    /\ cfg.EventLedgerRetentionWindow \in Nat /\ cfg.TransactionLedgerRetentionWindow \in Nat
    /\ i \in 1 .. Len(Order) + 1
    /\ phase \in {"load", "ok", "invalid", "error"}
    /\ err \in {"none"} \cup Required \cup {"default-events-limit"}
                        \cup {Order[j] : j \in 1 .. Len(Order)}

(* history-archive-urls is required: a configuration Validate accepts     *)
(* has at least one archive, the one the daemon reads as                   *)
(* HistoryArchiveURLs[0] (part_002 84).  It is about required's IsZero    *)
(* test and the []string case of the option's CustomSetValue.            *)
AcceptedArchivesUsable ==
    phase = "ok" => cfg.HistoryArchiveURLs.elems # <<>>

=============================================================================
