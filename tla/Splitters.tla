----------------------------- MODULE Splitters -----------------------------
(***************************************************************************)
(* The constructor of Proxy makes the splitter of the configured mode and  *)
(* the DonateSplitter.  The modes exclude each other, and the donate route *)
(* has miners of its own, so one of the four runs at a time here.  So does *)
(* MinerConnections, which has the connections of the miners in any mode.  *)
(***************************************************************************)
EXTENDS NonceSplitter, ExtraNonceSplitter, DonateSplitter, SimpleSplitter,
        MinerConnections

CONSTANT AllDaemons     \* every pool of the configuration is a daemon

ASSUME SplittersAssumption == AllDaemons \in BOOLEAN

VARIABLES
    mode,       \* Config::mode()
    splitter    \* the part that runs

allVars == <<mode, splitter, nonceVars, extraVars, donateVars, simpleVars, connectionVars>>

\* Proxy::Proxy: extra_nonce needs daemons only, else it is nicehash.
SplitterOf(m) ==
    CASE m = "simple" -> "SimpleSplitter"
      [] m = "extra_nonce" /\ AllDaemons -> "ExtraNonceSplitter"
      [] OTHER -> "NonceSplitter"

ConnectionsIdle ==
    /\ serving = [servers |-> {}, tls |-> FALSE, verifier |-> FALSE, diff |-> 0, donate |-> FALSE,
                   byWorker |-> FALSE, customStats |-> FALSE]
    /\ miners = [c \in MinerIds |-> NoMiner] /\ listed = {}
    /\ counters = NewCounters /\ totals = NewTotals /\ table = NewTable

\* The donate route and the connections are the same in every mode, and only
\* the simple mode reads what config holds: one case of each is enough.
Init ==
    /\ mode \in {"nicehash", "simple", "extra_nonce"}
    /\ splitter \in {SplitterOf(mode), "DonateSplitter", "Connections"}
    /\ NonceInit /\ ExtraInit /\ DonateInit /\ SimpleInit
    /\ IF splitter = "Connections" THEN ConnectionsInit ELSE ConnectionsIdle
    /\ splitter \in {"DonateSplitter", "Connections"} => mode = "nicehash"
    /\ splitter # "SimpleSplitter" => config = [daemon |-> FALSE, reuse |-> 0, donate |-> FALSE]

Next ==
    \/ splitter = "NonceSplitter" /\ NonceNext
         /\ UNCHANGED <<mode, splitter, extraVars, donateVars, simpleVars, connectionVars>>
    \/ splitter = "ExtraNonceSplitter" /\ ExtraNext
         /\ UNCHANGED <<mode, splitter, nonceVars, donateVars, simpleVars, connectionVars>>
    \/ splitter = "DonateSplitter" /\ DonateNext
         /\ UNCHANGED <<mode, splitter, nonceVars, extraVars, simpleVars, connectionVars>>
    \/ splitter = "SimpleSplitter" /\ SimpleNext
         /\ UNCHANGED <<mode, splitter, nonceVars, extraVars, donateVars, connectionVars>>
    \/ splitter = "Connections" /\ ConnectionsNext
         /\ UNCHANGED <<mode, splitter, nonceVars, extraVars, donateVars, simpleVars>>

Spec == Init /\ [][Next]_allVars

(***************************************************************************)
(* Properties                                                              *)
(***************************************************************************)

\* No two miners search the same nonces of a job: by their byte of the nonce
\* in nicehash mode, by their extra nonce in extra_nonce mode, by a job of their
\* own in simple mode.
WorkDisjoint == DisjointWork /\ ExtraNoncesDistinct /\ OneMinerPerJob

\* A share goes to the client its job came from, or for a job saved during a
\* donation to a later one of the user's pools, and the answer goes to the miner
\* that submitted it, whatever connections end or start in between.
SharesRouted == NonceRouting /\ ExtraRouting /\ SimpleRouting

\* Mappers and miners agree in every mode: nobody is placed on a mapper that is
\* gone, and no mapper is kept for a miner that left.
MappersMatchMiners == MinersPlaced /\ MapperPerMiner /\ MappersAgree

=============================================================================
