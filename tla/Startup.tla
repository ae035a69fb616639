------------------------------ MODULE Startup ------------------------------
(***************************************************************************)
(* From the command line to a running proxy and back: the chain of JSON    *)
(* documents that the options and the files make, the check of the         *)
(* configuration they add up to, and the start and the end of the parts.   *)
(*                                                                         *)
(* A document is a record of the keys that decide whether a configuration  *)
(* is taken; a key that is missing, or of a wrong type, is Absent, and a   *)
(* document without pools has none.                                        *)
(***************************************************************************)
EXTENDS Integers, SequencesExt

CONSTANTS
    Options,        \* sequences of options of the command line
    FileDocs,       \* documents that files hold
    Spellings       \* ways of writing the option for a file

\* The option as BasePrivate::load looks for it, and as getopt_long takes it
\* besides: with its value in the same word, shortened, or behind a flag.
Searched == {"--config", "-c", "-cFILE"}
Parsed == Searched \cup {"--config=FILE", "--conf FILE", "-Bc FILE"}

ASSUME StartupAssumption == Spellings \subseteq Parsed

VARIABLES
    host,       \* what the program finds: files, and how it is called
    boot        \* st; chain and sources: m_chain and where it is from; fileError,
                \* named: m_fileName is set; config: sources of what was taken

startVars == <<host, boot>>

Absent == "absent"
EmptyDoc == [pools |-> <<>>, watch |-> Absent, mode |-> Absent, donate |-> Absent, verifier |-> Absent]

\* There is none or it does not parse; it holds no object, or an empty one.
Unreadable == [kind |-> "unreadable", doc |-> EmptyDoc]
NoObject == [kind |-> "no object", doc |-> EmptyDoc]
Files == {Unreadable, NoObject} \cup {[kind |-> "object", doc |-> d] : d \in FileDocs}

\* The files that are tried when none is given, in this order.
DefaultFiles == <<"config.json", ".xmrig-proxy.json", ".config/xmrig-proxy.json">>

(***************************************************************************)
(* The options                                                             *)
(***************************************************************************)

\* An object of the array of pools: the members it has.  user is a primary
\* address of the coin; off is enabled = false.
NewPool == [url |-> FALSE, daemon |-> FALSE, user |-> FALSE, coin |-> FALSE, off |-> FALSE]

\* add: the member of the last pool, which is made if there is none.
addMember(doc, member) ==
    LET pools == IF doc.pools = <<>> THEN <<NewPool>> ELSE doc.pools
    IN  [doc EXCEPT !.pools = [pools EXCEPT ![Len(pools)] = [@ EXCEPT ![member] = TRUE]]]

\* --url: of the last pool if it has none yet, else of a new one.
addUrl(doc) ==
    IF doc.pools # <<>> /\ Last(doc.pools).url
    THEN [doc EXCEPT !.pools = Append(doc.pools, [NewPool EXCEPT !.url = TRUE])]
    ELSE addMember(doc, "url")

\* transform: t.coin is m_coin, the --coin that comes before any pool.
transform(t, option) ==
    CASE option = "url" -> [t EXCEPT !.doc = addUrl(t.doc)]
      [] option = "coin" -> IF t.doc.pools = <<>> THEN [t EXCEPT !.coin = TRUE]
                           ELSE [t EXCEPT !.doc = addMember(t.doc, "coin")]
      [] option = "user" -> [t EXCEPT !.doc = addMember(t.doc, "user")]
      [] OTHER -> t

\* transformBoolean, of --daemon.
transformBoolean(t, option) == IF option = "daemon" THEN [t EXCEPT !.doc = addMember(t.doc, "daemon")] ELSE t

\* transformUint64, of --donate-level.
transformUint64(t, option) == IF option = "donate" THEN [t EXCEPT !.doc.donate = "1"] ELSE t

\* ConfigTransform::transform, of --mode; the other options change no key here.
configTransform(t, option) ==
    LET base == transformUint64(transformBoolean(transform(t, option), option), option)
    IN  IF option = "mode" THEN [base EXCEPT !.doc.mode = "simple"] ELSE base

\* finalize: the coin of --coin is that of every pool that has none.
finalize(t) ==
    [t.doc EXCEPT !.pools = [i \in DOMAIN t.doc.pools |->
                               [t.doc.pools[i] EXCEPT !.coin = t.doc.pools[i].coin \/ t.coin]]]

(***************************************************************************)
(* JsonChain                                                               *)
(***************************************************************************)

\* add: a document without a member is not added.
chainAdd(b, doc, source) ==
    IF doc = EmptyDoc THEN b
    ELSE [b EXCEPT !.chain = Append(b.chain, doc), !.sources = Append(b.sources, source)]

\* addFile: a file that cannot be read, or holds no object, is an error.
addFile(b, f, source) ==
    CASE f.kind = "unreadable" -> [b EXCEPT !.fileError = TRUE]
      [] f.kind = "no object" -> [b EXCEPT !.fileError = TRUE, !.named = TRUE]
      [] OTHER -> chainAdd([b EXCEPT !.named = TRUE], f.doc, source)

\* getArray: the last document that has pools.
getArray(chain) ==
    LET has == {i \in DOMAIN chain : chain[i].pools # <<>>}
    IN  IF has = {} THEN <<>> ELSE chain[CHOOSE i \in has : \A j \in has : j <= i].pools

\* getBool, getString...: the last document that has the key.
get(chain, key, default) ==
    LET has == {i \in DOMAIN chain : chain[i][key] # Absent}
    IN  IF has = {} THEN default
        ELSE chain[CHOOSE i \in has : \A j \in has : j <= i][key]

(***************************************************************************)
(* Config                                                                  *)
(***************************************************************************)

\* Pools::load and Pool::isEnabled: the pools in use.
enabled(chain) ==
    LET pools == getArray(chain)
    IN  {pools[i] : i \in {i \in DOMAIN pools : pools[i].url /\ ~pools[i].off}}

\* BaseConfig::read.
baseRead(chain) == chain # <<>> /\ enabled(chain) # {}

\* Config::read, of the payout addresses.
addressesValid(chain) == \A p \in enabled(chain) : p.daemon => p.user

\* Mutant: the first pool is enough.
verifierAllowedSome(chain) ==
    /\ get(chain, "mode", "nicehash") = "simple"
    /\ get(chain, "donate", "0") = "0"
    /\ \E p \in enabled(chain) : p.daemon /\ p.coin

\* Mutant: a donation is not looked at.
verifierAllowedDonating(chain) ==
    /\ get(chain, "mode", "nicehash") = "simple"
    /\ \A p \in enabled(chain) : p.daemon /\ p.coin

\* Config::read, of what the verifier requires.
verifierAllowed(chain) ==
    /\ get(chain, "mode", "nicehash") = "simple"
    /\ get(chain, "donate", "0") = "0"
    /\ \A p \in enabled(chain) : p.daemon /\ p.coin

\* Config::read, of the object of the verifier: "bad" is one without a path
\* that can be used.
verifierReadable(chain) == get(chain, "verifier", "no") # "bad"

\* Config::read.
valid(chain) ==
    /\ baseRead(chain)
    /\ get(chain, "watch", "no") = "no"
    /\ verifierReadable(chain)
    /\ addressesValid(chain)
    /\ get(chain, "verifier", "no") = "yes" => verifierAllowed(chain)

(***************************************************************************)
(* Base                                                                    *)
(***************************************************************************)

\* load: the search of the arguments for a file that was chosen.
explicitConfig == host.spelling \in Searched

\* BaseTransform::load: options before the file, the file, options after it.
LoadArguments ==
    LET first == FoldLeft(configTransform, [doc |-> EmptyDoc, coin |-> FALSE], host.before)
        before == chainAdd(boot, first.doc, "options")
        chosen == IF host.spelling = "none" THEN boot ELSE addFile(before, host.chosen, "chosen")
        last == FoldLeft(configTransform, [doc |-> EmptyDoc, coin |-> first.coin], host.after)
        all == chainAdd(chosen, finalize(last), "options")
        bad == explicitConfig /\ (all.fileError \/ ~all.named)
    IN  /\ boot.st = "new"
        /\ boot' = [all EXCEPT !.st = IF bad THEN "failed" ELSE "read"]
        /\ UNCHANGED host

\* Mutant: the other files are tried although one was chosen.
nextFileAlways == IF boot.tried = Len(DefaultFiles) THEN "failed" ELSE "next"

\* load, after a configuration was not taken.
nextFile == IF explicitConfig \/ boot.tried = Len(DefaultFiles) THEN "failed" ELSE "next"

ReadConfig ==
    /\ boot.st = "read"
    /\ boot' = IF valid(boot.chain)
               THEN [boot EXCEPT !.st = "ready", !.config = boot.sources]
               ELSE [boot EXCEPT !.st = nextFile]
    /\ UNCHANGED host

\* What was in the chain before stays in it.
NextFile ==
    LET name == DefaultFiles[boot.tried + 1]
    IN  /\ boot.st = "next"
        /\ boot' = [addFile(boot, host.files[name], name) EXCEPT !.st = "read", !.tried = boot.tried + 1]
        /\ UNCHANGED host

(***************************************************************************)
(* App                                                                     *)
(***************************************************************************)

\* exec, up to Controller::init, which makes the Proxy.
Exec ==
    /\ boot.st = "ready"
    /\ boot' = [boot EXCEPT !.st = "initialised"]
    /\ UNCHANGED host

\* A dry run ends here; otherwise Base::start and Proxy::connect.
Start ==
    /\ boot.st = "initialised"
    /\ boot' = [boot EXCEPT !.st = IF host.dryRun THEN "checked" ELSE "running"]
    /\ UNCHANGED host

\* onSignal, onConsoleCommand and close: the configuration is never replaced
\* while the proxy runs (Base::reload, onFileChanged, onRequest).
Close ==
    /\ boot.st = "running"
    /\ boot' = [boot EXCEPT !.st = "stopped"]
    /\ UNCHANGED host

NewBoot ==
    [st |-> "new", chain |-> <<>>, sources |-> <<>>, fileError |-> FALSE, named |-> FALSE,
     tried |-> 0, config |-> <<>>]

FileNames == {DefaultFiles[i] : i \in DOMAIN DefaultFiles}

\* No file and no option.
NoHost ==
    [files |-> [n \in FileNames |-> Unreadable], chosen |-> Unreadable, before |-> <<>>,
     after |-> <<>>, spelling |-> "none", dryRun |-> FALSE]

StartupInit ==
    /\ \E names \in [FileNames -> Files] :
       \E chosen \in Files, before, after \in Options, spelling \in {"none"} \cup Spellings, dry \in BOOLEAN :
          /\ spelling = "none" => (chosen = Unreadable /\ before = <<>>)
          /\ names[".config/xmrig-proxy.json"] # Unreadable => names[".xmrig-proxy.json"] = Unreadable
          /\ host = [files |-> names, chosen |-> chosen, before |-> before, after |-> after,
                     spelling |-> spelling, dryRun |-> dry]
    /\ boot = NewBoot

StartupNext == LoadArguments \/ ReadConfig \/ NextFile \/ Exec \/ Start \/ Close

(***************************************************************************)
(* Properties                                                              *)
(***************************************************************************)

Up == boot.st \in {"ready", "initialised", "checked", "running"}

\* A file that was chosen on the command line in a way that the arguments are
\* searched for decides alone: the proxy runs with it and the options or not at
\* all.  Whatever was chosen, a file that is tried by default is only used when
\* all that was read before it was refused; and a verifier that any document
\* asks for last runs with pools, the mode and the donation that it is allowed
\* with (BasePrivate::load, JsonChain::addFile, Config::read).
ChosenFileDecides ==
    Up => /\ host.spelling \in Searched =>
               /\ \A i \in DOMAIN boot.config : boot.config[i] \in {"options", "chosen"}
               /\ host.chosen.kind = "object"
          /\ \A n \in DOMAIN boot.config :
               boot.config[n] \in FileNames => ~valid(SubSeq(boot.chain, 1, n - 1))
          /\ get(boot.chain, "verifier", "no") = "yes" =>
               /\ get(boot.chain, "mode", "nicehash") = "simple" /\ get(boot.chain, "donate", "0") = "0"
               /\ \A p \in enabled(boot.chain) : p.daemon /\ p.user /\ p.coin

\* What DAEMON_MINING.md and the comment in BasePrivate::load say of a file that
\* was chosen, however the option was written: no other file takes its place.
ExplicitIsAuthoritative ==
    Up /\ host.spelling # "none" => \A i \in DOMAIN boot.config : boot.config[i] \notin FileNames
=============================================================================
