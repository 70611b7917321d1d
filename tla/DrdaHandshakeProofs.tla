------------------------ MODULE DrdaHandshakeProofs -------------------------
(***************************************************************************)
(* Proofs about DrdaHandshake, for peers that list any number of security  *)
(* mechanisms and may answer anything.                                     *)
(***************************************************************************)
EXTENDS DrdaHandshake, TLAPS

\* An answer that lists mechanisms lists its first one, and only mechanisms.
LEMMA OfferListed ==
    ASSUME NEW offer \in Offers
    PROVE  /\ Listed(offer) \subseteq Mechanisms
           /\ offer # <<>> => offer[1] \in Listed(offer) /\ offer[1] \in Mechanisms
<1>1. PICK n \in 0..MaxOffer : offer \in [1..n -> Mechanisms]
  BY DEF Offers
<1>2. Listed(offer) \subseteq Mechanisms
  BY <1>1 DEF Listed
<1>3. ASSUME offer # <<>> PROVE 1 \in DOMAIN offer
  <2>1. CASE n = 0
    <3>1. DOMAIN offer = {}
      BY <1>1, <2>1
    <3>2. offer = <<>>
      BY <1>1, <2>1, <3>1
    <3> QED BY <3>2, <1>3
  <2>2. CASE n # 0
    BY <1>1, <2>2, HandshakeAssumption
  <2> QED BY <2>1, <2>2
<1> QED BY <1>2, <1>3 DEF Listed

\* pickSecMec answers with a mechanism of the list, and none there is stronger.
LEMMA PickIsStrongest ==
    ASSUME NEW offer \in Offers, offer # <<>>
    PROVE  /\ PickSecMec(offer) \in Listed(offer)
           /\ \A m \in Listed(offer) : Strength(m) <= Strength(PickSecMec(offer))
<1>1. Listed(offer) \subseteq Mechanisms /\ offer[1] \in Listed(offer)
  BY OfferListed
<1>2. PickSecMec(offer) \in Listed(offer)
  BY <1>1 DEF PickSecMec
<1>3. ASSUME NEW m \in Listed(offer)
      PROVE  Strength(m) <= Strength(PickSecMec(offer))
  <2>1. m \in Mechanisms
    BY <1>1
  <2>2. Strength(EUSRIDPWD) = 3 /\ Strength(USRIDPWD) = 2 /\ Strength(USRIDONL) = 1
        /\ Strength(Kerberos) = 0
    BY DEF Strength, USRIDPWD, USRIDONL, EUSRIDPWD, Kerberos
  <2>3. Strength(offer[1]) \in {0, 1, 2, 3}
    BY <1>1, <2>2 DEF Mechanisms
  <2> QED BY <1>1, <2>1, <2>2, <2>3 DEF PickSecMec, Mechanisms
<1> QED BY <1>2, <1>3

---------------------------------------------------------------------------
(* The inductive invariant, one lemma per step of the handshake *)

Inductive == TypeOK /\ HandshakeInv

\* Before anything is dialled there are no credentials to protect.
LEMMA InitInductive == Init => Inductive
<1> SUFFICES ASSUME Init PROVE Inductive
  OBVIOUS
<1>1. asked \in Seq(Mechanisms)
  BY DEF Init
<1>2. TypeOK
  BY <1>1 DEF Init, TypeOK, Phases
<1>3. HandshakeInv
  BY DEF Init, HandshakeInv, MechanismInv, StrengthInv, AcceptedInv, Sent, Automatic, USRIDPWD
<1> QED BY <1>2, <1>3 DEF Inductive

\* Dial fixes the mechanism to start with.
LEMMA DialInductive == Inductive /\ Dial => Inductive'
<1> SUFFICES ASSUME Inductive, Dial PROVE Inductive'
  OBVIOUS
<1> USE DEF Dial, Inductive, Fail, ClosedSocket, Automatic, config
<1>1. InitialSecMec \in Mechanisms /\ InitialSecMec' = InitialSecMec
  BY DEF InitialSecMec, TypeOK, Mechanisms, USRIDPWD, EUSRIDPWD
<1>2. TypeOK'
  <2>1. phase' \in Phases
    BY DEF Phases
  <2>2. socket' \in BOOLEAN
    OBVIOUS
  <2>3. secmec' \in Mechanisms \cup {Automatic}
    BY <1>1 DEF TypeOK
  <2> QED BY <2>1, <2>2, <2>3 DEF TypeOK
<1>3. MechanismInv'
  BY <1>1 DEF HandshakeInv, MechanismInv, Sent, InitialSecMec, USRIDPWD, EUSRIDPWD
<1>4. StrengthInv' /\ AcceptedInv'
  BY DEF HandshakeInv, StrengthInv, AcceptedInv, MechanismInv, Sent, Strength
<1> QED BY <1>2, <1>3, <1>4 DEF HandshakeInv

\* Whatever the answer to ACCSEC, the mechanism it points to is the one asked for or one
\* it lists, and after a refusal the strongest of the list.
LEMMA ExchangeInductive == Inductive /\ ExchangeSecurity => Inductive'
<1> SUFFICES ASSUME Inductive, ExchangeSecurity PROVE Inductive'
  OBVIOUS
<1> USE DEF Inductive, Automatic
<1>1. secmec \in Mechanisms /\ secmec = InitialSecMec /\ ~Sent
  BY DEF ExchangeSecurity, HandshakeInv, MechanismInv, InitialSecMec, TypeOK, Mechanisms,
         USRIDPWD, EUSRIDPWD
<1>2. asked' \in Seq(Mechanisms) /\ asked' # <<>> /\ asked'[Len(asked')] = secmec
  BY <1>1 DEF ExchangeSecurity, TypeOK
<1> DEFINE Pointed ==
      /\ serverSecMec' \in Mechanisms \cup {Automatic}
      /\ offered' \subseteq Mechanisms
      /\ refused' \in BOOLEAN /\ serverToken' \in BOOLEAN
      /\ phase' = "decide" => serverSecMec' = secmec \/ serverSecMec' \in offered'
      /\ refused' => \A m \in offered' : Strength(m) <= Strength(serverSecMec')
<1>3. Pointed
  <2>1. CASE UNCHANGED <<serverSecMec, serverToken, refused, offered>> /\ Fail
    BY <2>1 DEF ExchangeSecurity, TypeOK, HandshakeInv, StrengthInv, Fail
  <2>2. CASE serverSecMec' = secmec /\ UNCHANGED <<serverToken, refused, offered>>
    BY <1>1, <2>2 DEF ExchangeSecurity, TypeOK, HandshakeInv, StrengthInv
  <2>3. ASSUME NEW offer \in Offers,
               refused' \in {FALSE, offer # <<>>},
               offered' = Listed(offer),
               serverToken' \in BOOLEAN,
               serverSecMec' = IF refused' THEN PickSecMec(offer)
                               ELSE IF offer # <<>> THEN offer[1] ELSE secmec
        PROVE  Pointed
    <3>1. refused' => offer # <<>>
      BY <2>3
    <3> QED BY <1>1, <2>3, <3>1, OfferListed, PickIsStrongest
  <2> QED BY <2>1, <2>2, <2>3 DEF ExchangeSecurity
<1>4. TypeOK'
  BY <1>2, <1>3 DEF ExchangeSecurity, TypeOK, Phases, Fail, ClosedSocket, config
<1>5. MechanismInv'
  BY <1>1, <1>2, <1>3 DEF ExchangeSecurity, HandshakeInv, MechanismInv, Sent, Fail, config,
     InitialSecMec, Mechanisms, USRIDPWD, USRIDONL, EUSRIDPWD, Kerberos
<1>6. StrengthInv' /\ AcceptedInv'
  BY <1>1, <1>3 DEF ExchangeSecurity, HandshakeInv, StrengthInv, AcceptedInv, Sent, Fail, Strength
<1> QED BY <1>4, <1>5, <1>6 DEF HandshakeInv

\* A mechanism other than the one asked for is taken up only if none was configured.
LEMMA DecideInductive == Inductive /\ Decide => Inductive'
<1> SUFFICES ASSUME Inductive, Decide PROVE Inductive'
  OBVIOUS
<1> USE DEF Decide, Inductive, Fail, ClosedSocket, MayRenegotiate, AfterCounterOffer, Automatic, config
<1>1. serverSecMec # Automatic
  BY DEF HandshakeInv, MechanismInv, TypeOK, Mechanisms, USRIDPWD, USRIDONL, EUSRIDPWD, Kerberos
<1>2. TypeOK'
  <2>1. phase' \in Phases
    BY DEF Phases
  <2>2. socket' \in BOOLEAN
    BY DEF TypeOK
  <2>3. secmec' \in Mechanisms \cup {Automatic}
    BY DEF TypeOK
  <2> QED BY <2>1, <2>2, <2>3 DEF TypeOK
<1>3. MechanismInv'
  BY <1>1 DEF HandshakeInv, MechanismInv, Sent, InitialSecMec
<1>4. StrengthInv' /\ AcceptedInv'
  BY DEF HandshakeInv, StrengthInv, AcceptedInv, MechanismInv, Sent, Strength
<1> QED BY <1>2, <1>3, <1>4 DEF HandshakeInv

\* The second ACCSEC announces the mechanism taken up.
LEMMA RenegotiateInductive == Inductive /\ Renegotiate => Inductive'
<1> SUFFICES ASSUME Inductive, Renegotiate PROVE Inductive'
  OBVIOUS
<1> USE DEF Renegotiate, Inductive, Fail, ClosedSocket, Automatic, config
<1>1. secmec \in Mechanisms
  BY DEF HandshakeInv, MechanismInv, TypeOK
<1>2. asked' \in Seq(Mechanisms) /\ asked' # <<>> /\ asked'[Len(asked')] = secmec
  BY <1>1 DEF TypeOK
<1>3. TypeOK'
  <2>1. phase' \in Phases
    BY DEF Phases
  <2>2. socket' \in BOOLEAN /\ serverToken' \in BOOLEAN
    BY DEF TypeOK
  <2> QED BY <1>2, <2>1, <2>2 DEF TypeOK
<1>4. MechanismInv'
  BY <1>2 DEF HandshakeInv, MechanismInv, Sent, InitialSecMec
<1>5. StrengthInv' /\ AcceptedInv'
  BY DEF HandshakeInv, StrengthInv, AcceptedInv, MechanismInv, Sent, Strength
<1> QED BY <1>3, <1>4, <1>5 DEF HandshakeInv

\* Credentials go out under the mechanism in use.
LEMMA CheckInductive == Inductive /\ CheckSecurity => Inductive'
<1> SUFFICES ASSUME Inductive, CheckSecurity PROVE Inductive'
  OBVIOUS
<1> USE DEF CheckSecurity, Inductive, Fail, ClosedSocket, ReportedSecMec, Automatic, config
<1>1. TypeOK'
  <2>1. phase' \in Phases
    BY DEF Phases
  <2>2. socket' \in BOOLEAN /\ accepted' \in BOOLEAN
    BY DEF TypeOK
  <2>3. active' \in Mechanisms \cup {Automatic} /\ credentials' \in Mechanisms \cup {Automatic}
    BY DEF TypeOK
  <2> QED BY <2>1, <2>2, <2>3 DEF TypeOK
<1>2. MechanismInv'
  BY DEF HandshakeInv, MechanismInv, Sent, InitialSecMec
<1>3. StrengthInv'
  BY DEF HandshakeInv, StrengthInv, MechanismInv, Sent, Strength
<1>4. AcceptedInv'
  <2>1. phase' \in {"postconnect", "failed"}
    OBVIOUS
  <2>2. phase' = "postconnect" => accepted' /\ active' = credentials'
    OBVIOUS
  <2> QED BY <2>1, <2>2 DEF AcceptedInv
<1> QED BY <1>1, <1>2, <1>3, <1>4 DEF HandshakeInv

\* What follows leaves the mechanism alone.
LEMMA FinishInductive == Inductive /\ (PostConnect \/ Open) => Inductive'
<1> SUFFICES ASSUME Inductive, PostConnect \/ Open PROVE Inductive'
  OBVIOUS
<1> USE DEF PostConnect, Open, Inductive, Fail, ClosedSocket, Automatic, config
<1>1. phase \in {"postconnect", "open"} /\ phase' \in {"open", "connected", "failed"}
  OBVIOUS
<1>2. UNCHANGED <<tls, configured, schema, secmec, serverSecMec, serverToken, active, asked,
                  refused, offered, credentials, accepted>>
  OBVIOUS
<1>3. TypeOK'
  <2>1. socket' \in BOOLEAN
    BY DEF TypeOK
  <2>2. ddmUTF8' \in BOOLEAN
    BY DEF TypeOK
  <2>3. schemaSet' \in BOOLEAN
    <3>1. CASE PostConnect
      <4>1. ("SET CURRENT SCHEMA" \in SessionStatements) = FALSE
        BY DEF SessionStatements
      <4> QED BY <3>1, <4>1 DEF TypeOK
    <3>2. CASE Open
      BY <3>2 DEF TypeOK
    <3> QED BY <3>1, <3>2
  <2> QED BY <1>1, <1>2, <2>1, <2>2, <2>3 DEF TypeOK, Phases
<1>4. MechanismInv'
  BY <1>1, <1>2 DEF HandshakeInv, MechanismInv, Sent, InitialSecMec
<1>5. StrengthInv'
  BY <1>1, <1>2 DEF HandshakeInv, StrengthInv, Sent, Strength
<1>6. AcceptedInv'
  BY <1>1, <1>2 DEF HandshakeInv, AcceptedInv
<1> QED BY <1>3, <1>4, <1>5, <1>6 DEF HandshakeInv

\* The invariant holds throughout every handshake.
LEMMA InductiveInvariant == Spec => []Inductive
<1>1. Inductive /\ [Next]_vars => Inductive'
  <2> SUFFICES ASSUME Inductive, [Next]_vars PROVE Inductive'
    OBVIOUS
  <2>1. CASE UNCHANGED vars
    BY <2>1 DEF vars, config, Inductive, TypeOK, HandshakeInv, MechanismInv, StrengthInv,
       AcceptedInv, Sent, InitialSecMec, Strength
  <2> QED BY <2>1, DialInductive, ExchangeInductive, DecideInductive, RenegotiateInductive,
          CheckInductive, FinishInductive DEF Next
<1> QED BY <1>1, InitInductive, PTL DEF Spec

---------------------------------------------------------------------------
(* Theorems *)

\* Whatever the server answers, an explicitly configured security mechanism is the only one
\* credentials are ever sent under.
THEOREM ExplicitMechanismFailsClosed == Spec => []FailsClosed
<1>1. Inductive => FailsClosed
  BY DEF Inductive, HandshakeInv, MechanismInv, FailsClosed, Sent
<1> QED BY <1>1, InductiveInvariant, PTL

\* Without TLS, an automatic choice puts a password in the clear only if the server listed
\* that mechanism.
THEOREM NoUnaskedCleartext == Spec => []CleartextOnlyOnRequest
<1>1. Inductive => CleartextOnlyOnRequest
  BY DEF Inductive, HandshakeInv, MechanismInv, CleartextOnlyOnRequest
<1> QED BY <1>1, InductiveInvariant, PTL

\* After a refusal the driver authenticates with the strongest mechanism the server listed.
THEOREM StrongestIsUsed == Spec => []StrongestOffered
<1>1. Inductive => StrongestOffered
  BY DEF Inductive, HandshakeInv, MechanismInv, StrengthInv, StrongestOffered
<1> QED BY <1>1, InductiveInvariant, PTL

\* Credentials never go out under a mechanism that no ACCSEC announced last.
THEOREM CredentialsAreAnnounced == Spec => []Announced
<1>1. Inductive => Announced
  BY DEF Inductive, HandshakeInv, MechanismInv, Announced
<1> QED BY <1>1, InductiveInvariant, PTL

\* security_mechanism_active of a connected session is what the server accepted.
THEOREM ActiveMechanismIsTrue == Spec => []ReportsTheTruth
<1>1. Inductive => ReportsTheTruth
  BY DEF Inductive, HandshakeInv, AcceptedInv, ReportsTheTruth
<1> QED BY <1>1, InductiveInvariant, PTL

\* The state of an attempt keeps its types, whatever the server's answers are.
THEOREM HandshakeTypes == Spec => []TypeOK
<1>1. Inductive => TypeOK
  BY DEF Inductive
<1> QED BY <1>1, InductiveInvariant, PTL

\* Every way out of dial, handshake, postConnect and Open that reports failure has closed
\* the socket.
THEOREM FailureClosesSocket == Spec => []NoSocketLeak
<1>1. Init => NoSocketLeak
  BY DEF Init, NoSocketLeak
<1>2. NoSocketLeak /\ [Next]_vars => NoSocketLeak'
  <2> SUFFICES ASSUME NoSocketLeak, [Next]_vars PROVE NoSocketLeak'
    OBVIOUS
  <2>1. CASE Dial
    BY <2>1 DEF Dial, Fail, ClosedSocket, NoSocketLeak
  <2>2. CASE ExchangeSecurity
    BY <2>2 DEF ExchangeSecurity, Fail, ClosedSocket, NoSocketLeak
  <2>3. CASE Decide
    BY <2>3 DEF Decide, AfterCounterOffer, Fail, ClosedSocket, NoSocketLeak
  <2>4. CASE Renegotiate
    BY <2>4 DEF Renegotiate, Fail, ClosedSocket, NoSocketLeak
  <2>5. CASE CheckSecurity
    BY <2>5 DEF CheckSecurity, Fail, ClosedSocket, NoSocketLeak
  <2>6. CASE PostConnect
    BY <2>6 DEF PostConnect, Fail, ClosedSocket, NoSocketLeak
  <2>7. CASE Open
    BY <2>7 DEF Open, Fail, ClosedSocket, NoSocketLeak
  <2>8. CASE UNCHANGED vars
    BY <2>8 DEF vars, NoSocketLeak
  <2> QED BY <2>1, <2>2, <2>3, <2>4, <2>5, <2>6, <2>7, <2>8 DEF Next
<1> QED BY <1>1, <1>2, PTL DEF Spec

=============================================================================
