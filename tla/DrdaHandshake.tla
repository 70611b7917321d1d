---------------------------- MODULE DrdaHandshake ---------------------------
(***************************************************************************)
(* Opening a connection: dialTraced, handshake and postConnect of          *)
(* drda.Conn, and Database.Open around them.  The peer is external and may *)
(* answer anything; properties speak of what the driver does about it.     *)
(* Each step sends one transmission and reads the whole answer.            *)
(***************************************************************************)
EXTENDS Integers, Sequences

CONSTANTS
    MaxOffer      \* bound: security mechanisms listed in one ACCSECRD

ASSUME HandshakeAssumption == MaxOffer \in Nat

\* DRDA security mechanisms: user id and password in the clear, user id only,
\* encrypted user id and password, and one the driver does not implement.
USRIDPWD  == 3
USRIDONL  == 4
EUSRIDPWD == 9
Kerberos  == 11
Mechanisms == {USRIDPWD, USRIDONL, EUSRIDPWD, Kerberos}
Automatic  == 0

VARIABLES
    \* Config
    tls, configured, schema,
    \* the handshake's progress and locals
    phase,        \* where it is
    socket,       \* the TCP connection is open
    secmec,       \* the mechanism ACCSEC asks for
    serverSecMec, \* the mechanism the server's answer points to
    serverToken,  \* the server has sent a token to encrypt with
    \* Conn
    active,       \* Server.SecMec
    ddmUTF8,
    \* what the peer has seen and said
    asked,        \* mechanisms of the ACCSECs, in order
    refused,      \* its first answer refused the mechanism
    offered,      \* mechanisms that answer listed
    credentials,  \* mechanism of the SECCHK, if one was sent
    accepted,     \* the peer has accepted them and the database
    schemaSet     \* SET CURRENT SCHEMA has been run

config == <<tls, configured, schema>>
vars == <<config, phase, socket, secmec, serverSecMec, serverToken, active, ddmUTF8,
          asked, refused, offered, credentials, accepted, schemaSet>>

Phases == {"dial", "accsec", "decide", "renegotiate", "secchk", "postconnect", "open",
           "connected", "failed"}

TypeOK ==
    /\ tls \in BOOLEAN
    /\ configured \in Mechanisms \cup {Automatic}
    /\ schema \in BOOLEAN
    /\ phase \in Phases
    /\ socket \in BOOLEAN
    /\ secmec \in Mechanisms \cup {Automatic}
    /\ serverSecMec \in Mechanisms \cup {Automatic}
    /\ serverToken \in BOOLEAN
    /\ active \in Mechanisms \cup {Automatic}
    /\ ddmUTF8 \in BOOLEAN
    /\ asked \in Seq(Mechanisms)
    /\ refused \in BOOLEAN
    /\ offered \subseteq Mechanisms
    /\ credentials \in Mechanisms \cup {Automatic}
    /\ accepted \in BOOLEAN
    /\ schemaSet \in BOOLEAN

Init ==
    /\ tls \in BOOLEAN
    /\ configured \in Mechanisms \cup {Automatic}
    /\ schema \in BOOLEAN
    /\ phase = "dial"
    /\ socket = FALSE
    /\ secmec = Automatic
    /\ serverSecMec = Automatic
    /\ serverToken = FALSE
    /\ active = Automatic
    /\ ddmUTF8 = FALSE
    /\ asked = <<>>
    /\ refused = FALSE
    /\ offered = {}
    /\ credentials = Automatic
    /\ accepted = FALSE
    /\ schemaSet = FALSE

---------------------------------------------------------------------------
(* The driver *)

\* The mechanism ACCSEC starts with: over TLS a password in the clear will do.
\* Seeded faults: the zero that stands for "automatic" is sent; 9 is never tried.
Bug_SendsZero == configured
Bug_StartsInTheClear == IF configured # Automatic THEN configured ELSE USRIDPWD

InitialSecMec ==
    IF configured # Automatic THEN configured
    ELSE IF tls THEN USRIDPWD ELSE EUSRIDPWD

\* Seeded fault: a failed dial leaves the socket to the garbage collector.
Bug_LeaksSocket == socket

ClosedSocket == FALSE

Fail == phase' = "failed" /\ socket' = ClosedSocket

\* TCP, then TLS if it is configured.
Dial ==
    /\ phase = "dial"
    /\ \/ phase' = "accsec" /\ socket' = TRUE /\ secmec' = InitialSecMec
       \/ Fail /\ UNCHANGED secmec
    /\ UNCHANGED <<config, serverSecMec, serverToken, active, ddmUTF8, asked, refused, offered,
                   credentials, accepted, schemaSet>>

Offers == UNION {[1..n -> Mechanisms] : n \in 0..MaxOffer}
Listed(offer) == {offer[i] : i \in DOMAIN offer}

\* Seeded fault: the first mechanism listed is taken.
Bug_PickFirst(offer) == offer[1]

\* 9 (encrypted) before 3 (cleartext) before 4 (user id only), else what comes first.
PickSecMec(offer) ==
    IF EUSRIDPWD \in Listed(offer) THEN EUSRIDPWD
    ELSE IF USRIDPWD \in Listed(offer) THEN USRIDPWD
    ELSE IF USRIDONL \in Listed(offer) THEN USRIDONL
    ELSE offer[1]

\* EXCSAT and ACCSEC.  An ACCSECRD may refuse the mechanism (SECCHKCD 1) and list the
\* ones accepted, list without refusing, or be missing; other refusals end here.
ExchangeSecurity ==
    /\ phase = "accsec"
    /\ asked' = Append(asked, secmec)
    /\ \/ /\ Fail
          /\ UNCHANGED <<serverSecMec, serverToken, refused, offered>>
       \/ /\ phase' = "decide"
          /\ UNCHANGED socket
          /\ \/ serverSecMec' = secmec /\ UNCHANGED <<serverToken, refused, offered>>
             \/ \E offer \in Offers :
                   /\ refused' \in {FALSE, offer # <<>>}
                   /\ offered' = Listed(offer)
                   /\ serverToken' \in BOOLEAN
                   /\ serverSecMec' = IF refused' THEN PickSecMec(offer)
                                      ELSE IF offer # <<>> THEN offer[1] ELSE secmec
    /\ UNCHANGED <<config, secmec, active, ddmUTF8, credentials, accepted, schemaSet>>

\* Seeded fault: an explicitly configured mechanism is renegotiated too.
Bug_MayRenegotiate == TRUE

MayRenegotiate == configured = Automatic

\* Seeded fault: the mechanism is changed without another ACCSEC.
Bug_SkipsACCSEC == "secchk"

AfterCounterOffer == "renegotiate"

\* A different mechanism is taken up only if the choice was automatic.
Decide ==
    /\ phase = "decide"
    /\ \/ /\ serverSecMec = secmec
          /\ phase' = "secchk" /\ UNCHANGED <<socket, secmec>>
       \/ /\ serverSecMec # secmec /\ ~MayRenegotiate
          /\ Fail /\ UNCHANGED secmec
       \/ /\ serverSecMec # secmec /\ MayRenegotiate
          /\ phase' = AfterCounterOffer /\ secmec' = serverSecMec /\ UNCHANGED socket
    /\ UNCHANGED <<config, serverSecMec, serverToken, active, ddmUTF8, asked, refused, offered,
                   credentials, accepted, schemaSet>>

\* The second ACCSEC.  Its answer's list is not looked at; the token is the one it
\* brings, or the old one if it has no ACCSECRD.
Renegotiate ==
    /\ phase = "renegotiate"
    /\ asked' = Append(asked, secmec)
    /\ \/ Fail /\ UNCHANGED serverToken
       \/ /\ phase' = "secchk"
          /\ UNCHANGED socket
          /\ serverToken' \in BOOLEAN
    /\ UNCHANGED <<config, secmec, serverSecMec, active, ddmUTF8, refused, offered, credentials,
                   accepted, schemaSet>>

\* Seeded fault: the session reports the mechanism first asked for.
Bug_ReportsPreference == InitialSecMec

ReportedSecMec == secmec

\* packSECCHK: encryption needs the server's token; other mechanisms are refused.
CanPack == secmec \in {USRIDPWD, USRIDONL} \/ (secmec = EUSRIDPWD /\ serverToken)

\* SECCHK and ACCRDB.  A SECCHKRM with a code, an error, or no ACCRDBRM ends here.
CheckSecurity ==
    /\ phase = "secchk"
    /\ active' = ReportedSecMec
    /\ \/ /\ ~CanPack
          /\ Fail
          /\ UNCHANGED <<credentials, accepted>>
       \/ /\ CanPack
          /\ credentials' = secmec
          /\ \/ phase' = "postconnect" /\ accepted' = TRUE /\ UNCHANGED socket
             \/ Fail /\ UNCHANGED accepted
    /\ UNCHANGED <<config, secmec, serverSecMec, serverToken, ddmUTF8, asked, refused, offered,
                   schemaSet>>

\* postConnect's `stmts', which nothing is ever added to.
SessionStatements == {}

\* EXCSAT with CCSIDMGR 1208, which the server may agree to; then the statements.
PostConnect ==
    /\ phase = "postconnect"
    /\ \/ Fail /\ UNCHANGED <<ddmUTF8, schemaSet>>
       \/ /\ phase' = "open"
          /\ UNCHANGED socket
          /\ ddmUTF8' \in BOOLEAN
          /\ schemaSet' = ("SET CURRENT SCHEMA" \in SessionStatements)
    /\ UNCHANGED <<config, secmec, serverSecMec, serverToken, active, asked, refused, offered,
                   credentials, accepted>>

\* Database.Open: a trace file that cannot be opened closes the connection again.
Open ==
    /\ phase = "open"
    /\ \/ phase' = "connected" /\ UNCHANGED socket
       \/ Fail
    /\ UNCHANGED <<config, secmec, serverSecMec, serverToken, active, ddmUTF8, asked, refused, offered,
                   credentials, accepted, schemaSet>>

Next == Dial \/ ExchangeSecurity \/ Decide \/ Renegotiate \/ CheckSecurity \/ PostConnect \/ Open

Spec == Init /\ [][Next]_vars

---------------------------------------------------------------------------
(* Properties *)

Sent == credentials # Automatic

\* An explicitly configured mechanism fails closed: credentials are sent under it or
\* not at all, whatever the server answers.
FailsClosed == (Sent /\ configured # Automatic) => credentials = configured

\* Chosen automatically, a password goes out in the clear only inside TLS or after the
\* server has listed that mechanism.
CleartextOnlyOnRequest ==
    (Sent /\ configured = Automatic /\ credentials = USRIDPWD) => tls \/ USRIDPWD \in offered

Strength(m) == CASE m = EUSRIDPWD -> 3 [] m = USRIDPWD -> 2 [] m = USRIDONL -> 1 [] OTHER -> 0

\* Once its mechanism is refused, the driver goes on with the strongest one listed.
StrongestOffered == (Sent /\ refused) => \A m \in offered : Strength(m) <= Strength(credentials)

\* Credentials are sent only under the mechanism the last ACCSEC announced.
Announced == Sent => credentials = asked[Len(asked)]

\* A connected session's security_mechanism_active is the mechanism the server has
\* accepted its credentials under.
ReportsTheTruth == phase = "connected" => accepted /\ active = credentials

\* An attempt that fails leaves no socket open.
NoSocketLeak == phase = "failed" => ~socket

\* "CurrentSchema, when set, is applied via SET CURRENT SCHEMA after connecting."
SchemaApplied == (phase = "connected" /\ schema) => schemaSet

---------------------------------------------------------------------------
(* The inductive invariant behind the properties *)

\* What the mechanism in use may be, phase by phase.
MechanismInv ==
    /\ phase = "accsec" => secmec = InitialSecMec
    /\ phase \in {"decide", "renegotiate", "secchk"} => secmec # Automatic
    /\ phase = "decide" => serverSecMec = secmec \/ serverSecMec \in offered
    /\ configured # Automatic => secmec \in {Automatic, configured}
    /\ (configured = Automatic /\ secmec = USRIDPWD) => tls \/ USRIDPWD \in offered
    /\ phase \in {"dial", "accsec", "decide", "renegotiate", "secchk"} => ~Sent
    /\ Sent => credentials = secmec
    /\ (phase \in {"decide", "secchk"} \/ Sent) => asked # <<>> /\ asked[Len(asked)] = secmec

\* The server's answer, once it refused: the strongest mechanism it listed.
StrengthInv ==
    /\ phase \in {"dial", "accsec"} => ~refused
    /\ refused => \A m \in offered : Strength(m) <= Strength(serverSecMec)
    /\ (phase \in {"renegotiate", "secchk"} \/ Sent) => secmec = serverSecMec

\* Past the security check the session is accepted and reports what it sent.
AcceptedInv ==
    phase \in {"postconnect", "open", "connected"} => accepted /\ active = credentials

HandshakeInv == MechanismInv /\ StrengthInv /\ AcceptedInv

=============================================================================
