--------------------------- MODULE DonateSplitter ---------------------------
(***************************************************************************)
(* Miners that connect through the proxy to a pool of their own: a login   *)
(* with a "url" makes DonateSplitter create a DonateMapper with a client   *)
(* for that one miner (routeId 0); the splitter of the mode ignores it.    *)
(* The mapper ends with its miner, and the miner with the connection.      *)
(***************************************************************************)
EXTENDS Integers, FiniteSets

CONSTANTS
    DMiners,            \* miners
    DMaxShares,         \* bound on shares of a miner
    IsDonateOverProxy   \* the configuration allows it

ASSUME DonateAssumption ==
    /\ IsFiniteSet(DMiners)
    /\ DMaxShares \in Nat
    /\ IsDonateOverProxy \in BOOLEAN

VARIABLES
    dminer,         \* of each miner: state, routeId() and mapperId()
    mappers,        \* m_mappers: of each id, [miner, client, active]
    dsequence,      \* m_sequence: the next id
    dshares,        \* of each miner: shares submitted
    danswers        \* of each miner: answers written

donateVars == <<dminer, mappers, dsequence, dshares, danswers>>

\* A login of a miner that the configuration or its url do not route stays
\* with the splitter of the mode; a bad url rejects and closes the miner.
DLogin(m, url) ==
    /\ dminer[m].st = "new"
    /\ \/ /\ ~IsDonateOverProxy \/ url = "none"
          /\ dminer' = [dminer EXCEPT ![m].st = "in"]
          /\ UNCHANGED <<mappers, dsequence>>
       \/ /\ IsDonateOverProxy /\ url = "bad"
          /\ dminer' = [dminer EXCEPT ![m].st = "closing"]
          /\ UNCHANGED <<mappers, dsequence>>
       \/ /\ IsDonateOverProxy /\ url = "good"
          /\ dminer' = [dminer EXCEPT ![m] = [st |-> "in", routeId |-> 0, mapperId |-> dsequence]]
          /\ mappers' = [i \in DOMAIN mappers \cup {dsequence} |->
                           IF i = dsequence
                             THEN [miner |-> m, client |-> "connecting", active |-> TRUE]
                             ELSE mappers[i]]
          /\ dsequence' = dsequence + 1
    /\ UNCHANGED <<dshares, danswers>>

\* The client logs in; its jobs are forwarded to the miner.
DClientLogin(i) ==
    /\ mappers[i].client = "connecting"
    /\ mappers' = [mappers EXCEPT ![i].client = "up"]
    /\ UNCHANGED <<dminer, dsequence, dshares, danswers>>

\* onClose: the mapper is not ticked, so the client would not try again.
DClientClose(i) ==
    /\ mappers[i].client # "closed"
    /\ mappers' = [mappers EXCEPT ![i].client = "closed", ![i].active = FALSE]
    /\ dminer' = [dminer EXCEPT ![mappers[i].miner].st = "closing"]
    /\ UNCHANGED <<dsequence, dshares, danswers>>

\* submit: answered at once when the mapper is not active, and not answered
\* at all when the client cannot send it.
DSubmit(m) ==
    /\ dminer[m].st = "in" /\ dminer[m].routeId = 0
    /\ dshares[m] < DMaxShares
    /\ LET mp == mappers[dminer[m].mapperId]
       IN  danswers' = IF mp.active THEN danswers ELSE [danswers EXCEPT ![m] = @ + 1]
    /\ dshares' = [dshares EXCEPT ![m] = @ + 1]
    /\ UNCHANGED <<dminer, mappers, dsequence>>

\* onResultAccepted answers m_miner without looking it up.
DResult(i) ==
    /\ mappers[i].client = "up"
    /\ LET m == mappers[i].miner
       IN  /\ danswers[m] < dshares[m]
           /\ danswers' = [danswers EXCEPT ![m] = @ + 1]
    /\ UNCHANGED <<dminer, mappers, dsequence, dshares>>

\* The miner closes its connection.
DMinerClose(m) ==
    /\ dminer[m].st \in {"new", "in"}
    /\ dminer' = [dminer EXCEPT ![m].st = "closing"]
    /\ UNCHANGED <<mappers, dsequence, dshares, danswers>>

\* Mutant: the mapper is kept.
DRemoveMiner(m) ==
    /\ dminer[m].st = "closing"
    /\ dminer' = [dminer EXCEPT ![m].st = "deleted"]
    /\ UNCHANGED <<mappers, dsequence, dshares, danswers>>

\* The close event of a miner: remove() deletes its mapper, then the miner is
\* deleted.
DRemove(m) ==
    /\ dminer[m].st = "closing"
    /\ dminer' = [dminer EXCEPT ![m].st = "deleted"]
    /\ LET i == dminer[m].mapperId
       IN  mappers' = IF i < 0 \/ dminer[m].routeId # 0 \/ i \notin DOMAIN mappers
                        THEN mappers
                        ELSE [j \in DOMAIN mappers \ {i} |-> mappers[j]]
    /\ UNCHANGED <<dsequence, dshares, danswers>>

DonateInit ==
    /\ dminer = [m \in DMiners |-> [st |-> "new", routeId |-> -1, mapperId |-> -1]]
    /\ mappers = [i \in {} |-> 0]
    /\ dsequence = 0
    /\ dshares = [m \in DMiners |-> 0] /\ danswers = [m \in DMiners |-> 0]

DonateNext ==
    \/ \E m \in DMiners, url \in {"none", "bad", "good"} : DLogin(m, url)
    \/ \E m \in DMiners : DSubmit(m) \/ DMinerClose(m) \/ DRemove(m)
    \/ \E i \in DOMAIN mappers : DClientLogin(i) \/ DClientClose(i) \/ DResult(i)

(***************************************************************************)
(* Property                                                                *)
(***************************************************************************)

\* A DonateMapper and its miner live and die together: no mapper holds a
\* deleted miner (its callbacks use m_miner unchecked), every routed miner that
\* can submit has its own mapper, and no two mappers share a miner
\* (DonateSplitter::login, remove).
MapperPerMiner ==
    /\ \A i \in DOMAIN mappers :
          /\ dminer[mappers[i].miner].st \in {"in", "closing"}
          /\ dminer[mappers[i].miner].mapperId = i
    /\ \A m \in DMiners : dminer[m].st = "in" /\ dminer[m].routeId = 0
          => dminer[m].mapperId \in DOMAIN mappers

=============================================================================
