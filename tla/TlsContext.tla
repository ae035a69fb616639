----------------------------- MODULE TlsContext -----------------------------
(***************************************************************************)
(* The TLS context that miners connect with: TlsConfig reads "tls" of the  *)
(* configuration and has TlsGen make a key with its certificate where none *)
(* are named, and TlsContext loads them.  TlsGen writes two files, one     *)
(* after the other, and does not look at what fclose returns.  The files   *)
(* outlive the proxy, which may be killed between any two steps, and its   *)
(* operator may remove them.                                               *)
(***************************************************************************)
EXTENDS Integers

CONSTANTS
    TlsDocs,    \* values of "tls" in the configuration
    MaxPairs    \* bound: key pairs that are made

\* The kinds of value that TlsConfig tells apart.
ASSUME TlsContextAssumption ==
    MaxPairs \in Nat /\ \A doc \in TlsDocs : doc.kind \in {"object", "bool", "string", "other"}

VARIABLES
    files,      \* cert.pem and cert_key.pem: no file, one that was not written to
                \* its end, or the number of the pair it belongs to
    pairs,      \* key pairs made so far
    tls,        \* st: how far the start is; m_enabled; named: whether m_cert and
                \* m_key name the operator's files or the generated ones;
                \* m_protocols; context: m_tls, its pair and versions.  History:
                \* found: the files when it started; broken: it could not make a
                \* pair or write both files of it whole
    unfinished  \* history: the last attempt to make the files did not leave both
                \* of them whole

tlsVars == <<files, pairs, tls, unfinished>>

Versions == {"TLSv1", "TLSv1.1", "TLSv1.2", "TLSv1.3"}

NoFile == 0
Torn == -1
OwnPair == MaxPairs + 1     \* the pair in the operator's files

NoContext == [pair |-> NoFile, versions |-> {}]
NewTls == [st |-> "off", doc |-> [kind |-> "other"], enabled |-> FALSE, named |-> "none", protocols |-> {},
           context |-> NoContext, found |-> [cert |-> NoFile, key |-> NoFile], broken |-> FALSE]

\* setProtocols: a name that is not known is passed over.
setProtocols(names) == names \cap Versions

\* TlsConfig, before it generates.  A string is a common name, and nothing at
\* all is no TLS.
Configured(doc) ==
    LET t == [NewTls EXCEPT !.doc = doc]
    IN  CASE doc.kind = "object" ->
               [t EXCEPT !.enabled = doc.enabled, !.protocols = setProtocols(doc.protocols),
                         !.named = IF doc.cert /\ doc.key THEN "own" ELSE "none"]
          [] doc.kind = "bool" -> [t EXCEPT !.enabled = doc.enabled]
          [] doc.kind = "string" -> [t EXCEPT !.enabled = TRUE]
          [] doc.kind = "other" -> t

\* Mutant: one file is enough.
filesExistAny(f) == f.cert # NoFile \/ f.key # NoFile

\* isFileExist of both: TlsGen::generate leaves them alone.
filesExist(f) == f.cert # NoFile /\ f.key # NoFile

\* What TlsConfig::generate does after TlsGen.
Generated(t) == [t EXCEPT !.named = "generated", !.st = "configured"]

ReadTls(doc) ==
    LET t == [Configured(doc) EXCEPT !.found = files]
    IN  /\ tls.st = "off"
        /\ tls' = IF ~(t.enabled /\ t.named = "none") THEN [t EXCEPT !.st = "configured"]
                  ELSE IF filesExist(files) THEN Generated(t)
                  ELSE [t EXCEPT !.st = "generate"]
        /\ UNCHANGED <<files, pairs, unfinished>>

\* An exception of TlsGen: TlsConfig::generate returns false, and no file is named.
GenerateFails == tls' = [tls EXCEPT !.st = "configured", !.broken = TRUE] /\ unfinished' = TRUE

\* generate_pkey and generate_x509.
MakePair(ok) ==
    /\ tls.st = "generate" /\ pairs < MaxPairs
    /\ IF ok THEN tls' = [tls EXCEPT !.st = "write key"] /\ unfinished' = TRUE ELSE GenerateFails
    /\ pairs' = pairs + 1
    /\ UNCHANGED files

\* What TlsGen::write may find a file to be: fopen fails, and leaves it, or
\* empties it; PEM_write may fail, and fclose whatever PEM_write returned.
leaves(old, ret) == IF ret THEN {pairs, Torn} ELSE {old, Torn}

\* TlsGen::write.  ret is whether fopen and PEM_write succeed.
WriteKey(left, ret) ==
    /\ tls.st = "write key" /\ left \in leaves(files.key, ret)
    /\ files' = [files EXCEPT !.key = left]
    /\ IF ret THEN tls' = [tls EXCEPT !.st = "write cert", !.broken = (left = Torn)] /\ UNCHANGED unfinished
       ELSE GenerateFails
    /\ UNCHANGED pairs

WriteCert(left, ret) ==
    /\ tls.st = "write cert" /\ left \in leaves(files.cert, ret)
    /\ files' = [files EXCEPT !.cert = left]
    /\ LET broken == tls.broken \/ left = Torn
       IN  IF ret THEN tls' = [Generated(tls) EXCEPT !.broken = broken] /\ unfinished' = broken
           ELSE GenerateFails
    /\ UNCHANGED pairs

\* TlsContext::setProtocols: no name stands for all versions.
Offered(protocols) == IF protocols = {} THEN Versions ELSE protocols

\* SSL_CTX_use_certificate_chain_file and SSL_CTX_use_PrivateKey_file: the key
\* has to belong to the certificate.
LoadedPair(t) ==
    IF t.named = "own" THEN IF t.doc.good THEN OwnPair ELSE NoFile
    ELSE IF files.cert > 0 /\ files.key = files.cert THEN files.cert ELSE NoFile

\* setCiphers, setCipherSuites and setDH, of which the first returns true
\* whatever the list is.
Settings(doc) == doc.kind = "object" => doc.suites # "bad" /\ doc.dh # "bad"

\* Mutant: the versions are set before they are known.
loadUnset(t) ==
    IF LoadedPair(t) # NoFile /\ Settings(t.doc) THEN [pair |-> LoadedPair(t), versions |-> Offered({})] ELSE NoContext

\* TlsContext::load
load(t) ==
    IF LoadedPair(t) # NoFile /\ Settings(t.doc)
    THEN [pair |-> LoadedPair(t), versions |-> Offered(t.protocols)] ELSE NoContext

\* TlsContext::create, in Proxy::connect.
Create ==
    /\ tls.st = "configured"
    /\ tls' = [tls EXCEPT !.st = "running", !.context = IF tls.enabled /\ tls.named # "none" THEN load(tls) ELSE NoContext]
    /\ UNCHANGED <<files, pairs, unfinished>>

\* The proxy ends or is killed.
Killed ==
    /\ tls.st # "off"
    /\ tls' = NewTls
    /\ UNCHANGED <<files, pairs, unfinished>>

OperatorRemoves(name) ==
    /\ tls.st = "off" /\ files[name] # NoFile
    /\ files' = [files EXCEPT ![name] = NoFile]
    /\ UNCHANGED <<pairs, tls, unfinished>>

\* The files of an earlier proxy, as far as its operator left them.
TlsInit ==
    /\ pairs \in {0, 1}
    /\ files \in [cert : {NoFile, pairs}, key : {NoFile, pairs}]
    /\ tls = NewTls /\ unfinished = FALSE

TlsNext ==
    \/ \E doc \in TlsDocs : ReadTls(doc)
    \/ \E ok \in BOOLEAN : MakePair(ok)
    \/ \E left \in -1..MaxPairs, ret \in BOOLEAN : WriteKey(left, ret) \/ WriteCert(left, ret)
    \/ Create \/ Killed
    \/ \E name \in {"cert", "key"} : OperatorRemoves(name)

(***************************************************************************)
(* Properties                                                              *)
(***************************************************************************)

\* The configuration asks for TLS with settings that exist.
AsksForTls(doc) ==
    CASE doc.kind = "object" -> doc.enabled /\ Settings(doc) /\ (doc.cert /\ doc.key => doc.good)
      [] doc.kind = "bool" -> doc.enabled
      [] doc.kind = "string" -> TRUE
      [] doc.kind = "other" -> FALSE

\* Files that both exist and are not one whole pair: nothing makes new ones.
Unusable(f) == f.cert # NoFile /\ f.key # NoFile /\ ~(f.cert = f.key /\ f.cert > 0)

\* A proxy that is asked for TLS has it, with the versions that are named and
\* a key that belongs to its certificate.  It goes without only when it could
\* not make a pair or write it whole, or when it found two files that belong
\* to no pair, which only an attempt leaves that failed, was cut off by the end
\* of the proxy or lost what it wrote; after any of these, one file or none is
\* never taken for a pair.  And no proxy has TLS that was not asked for
\* (TlsConfig::TlsConfig, TlsGen::generate, write, TlsContext::create).
TlsAsConfigured ==
    tls.st = "running" =>
        /\ AsksForTls(tls.doc) /\ tls.context = NoContext =>
             /\ tls.named # "own"
             /\ tls.broken \/ (unfinished /\ Unusable(tls.found))
        /\ tls.context # NoContext =>
             /\ AsksForTls(tls.doc)
             /\ tls.doc.kind = "object" /\ tls.doc.protocols \cap Versions # {}
                  => tls.context.versions = tls.doc.protocols \cap Versions
=============================================================================
