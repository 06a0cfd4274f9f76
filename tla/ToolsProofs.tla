---------------------------- MODULE ToolsProofs ----------------------------
(***************************************************************************)
(* Proofs about Tools: the hash functions separate whatever texts they are *)
(* given, and the stand-alone circuits are the parts of the settlement     *)
(* circuit, for every set of texts and batches and every field size.       *)
(*                                                                         *)
(* Both rest on an invariant that says of what was computed or proved how  *)
(* it came about (ComputedInv, ProvedInv).  The rest is about sequences:    *)
(* what a tag in front of a text and a number behind it leave legible.     *)
(***************************************************************************)
EXTENDS Tools, SequenceTheorems, TLAPS

-----------------------------------------------------------------------------
(***************************************************************************)
(* Sequences.                                                              *)
(***************************************************************************)

\* A sequence can be told from what stands in front of it.
LEMMA FrontLegible ==
  ASSUME NEW S, NEW s \in Seq(S), NEW t \in Seq(S), NEW a \in S, NEW b \in S,
         <<a>> \o s = <<b>> \o t
  PROVE  a = b /\ s = t
<1>1. (<<a>> \o s)[1] = a /\ (<<b>> \o t)[1] = b
  OBVIOUS
<1>2. <<a>> \in Seq(S)
  OBVIOUS
<1>3. \A x, y, z \in Seq(S) : x \o y = x \o z => y = z
  BY ConcatSimplifications
<1> QED
  BY <1>1, <1>2, <1>3

\* And from what stands behind it.
LEMMA BackLegible ==
  ASSUME NEW S, NEW s \in Seq(S), NEW t \in Seq(S), NEW m \in S, NEW n \in S,
         s \o <<m>> = t \o <<n>>
  PROVE  s = t /\ m = n
<1>1. Len(s) = Len(t)
  <2>1. Len(s \o <<m>>) = Len(s) + 1 /\ Len(t \o <<n>>) = Len(t) + 1
    OBVIOUS
  <2> QED
    BY <2>1
<1>2. (s \o <<m>>)[Len(s) + 1] = m /\ (t \o <<n>>)[Len(t) + 1] = n
  OBVIOUS
<1>3. <<m>> \in Seq(S)
  OBVIOUS
<1>4. \A x, y, z \in Seq(S) : x \o z = y \o z => x = y
  BY ConcatSimplifications
<1> QED
  BY <1>1, <1>2, <1>3, <1>4

-----------------------------------------------------------------------------
(***************************************************************************)
(* Hashes.                                                                 *)
(***************************************************************************)

\* Hash x is what the function of its name makes of its text and number.
Hashed(x) ==
  \/ x.function = "NullifierFor" /\ x.hash = NullifierFor(x.text, x.number)
  \/ x.function = "NullifierForV1" /\ x.hash = NullifierForV1(x.text, x.number)
  \/ x.function = "DestinationHashFor" /\ x.number = 0 /\ x.hash = DestinationHashFor(x.text)
  \/ x.function = "DestinationHashForV1" /\ x.number = 0 /\ x.hash = DestinationHashForV1(x.text)
  \/ x.function = "DestinationHashCircuitV1Hex" /\ x.number = 0
       /\ x.hash = DestinationHashCircuitV1Hex(x.text)
  \/ x.function = "NullifierCircuitV1Hex" /\ x.hash = NullifierCircuitV1Hex(x.text, x.number)
  \/ x.function = "AccountCommitmentCircuitV1Hex"
       /\ x.hash = AccountCommitmentCircuitV1Hex(x.text, x.number)

ComputedInv == \A x \in computed : x.text \in Texts /\ ~IsBlank(x.text) /\ Hashed(x)

\* Nothing is computed at first.
LEMMA ComputedInit == Init => ComputedInv
BY DEF Init, NothingComputed, ComputedInv

\* Each call computes the hash of its own text and number.
LEMMA ComputedStep == ComputedInv /\ [Next]_<<computed, proved>> => ComputedInv'
<1> SUFFICES ASSUME ComputedInv, [Next]_<<computed, proved>>
             PROVE  ComputedInv'
  OBVIOUS
<1>1. CASE UNCHANGED computed
  BY <1>1 DEF ComputedInv, Hashed
<1>2. ASSUME NEW function, NEW text \in Texts, NEW number, NEW hash,
             ComputeHash(function, text, number, hash),
             Hashed([function |-> function, text |-> text, number |-> number, hash |-> hash])
      PROVE  ComputedInv'
  BY <1>2 DEF ComputeHash, ComputedInv
<1>3. CASE ComputeSome
  <2>1. PICK text \in Texts :
          \/ ComputeHash("DestinationHashFor", text, 0, DestinationHashFor(text))
          \/ ComputeHash("DestinationHashForV1", text, 0, DestinationHashForV1(text))
          \/ ComputeHash("DestinationHashCircuitV1Hex", text, 0, DestinationHashCircuitV1Hex(text))
          \/ \E n \in Numbers :
               \/ ComputeHash("NullifierFor", text, n, NullifierFor(text, n))
               \/ ComputeHash("NullifierForV1", text, n, NullifierForV1(text, n))
               \/ ComputeHash("NullifierCircuitV1Hex", text, n, NullifierCircuitV1Hex(text, n))
               \/ ComputeHash("AccountCommitmentCircuitV1Hex", text, n,
                            AccountCommitmentCircuitV1Hex(text, n))
    BY <1>3 DEF ComputeSome
  <2> QED
    BY <1>2, <2>1 DEF Hashed
<1> QED
  BY <1>1, <1>3 DEF Next

\* What was computed is known in every behaviour.
LEMMA ComputedInvariant == Spec => []ComputedInv
BY ComputedInit, ComputedStep, PTL DEF Spec

\* What stands between the bars of a text, and that it tells the text but for
\* white space around it.
LEMMA TextLegible ==
  ASSUME NEW t \in Texts, NEW u \in Texts, ~IsBlank(t), ~IsBlank(u)
  PROVE  /\ Pieces(TrimSpace(t)) = Pieces(t) /\ Pieces(TrimSpace(u)) = Pieces(u)
         /\ Pieces(t) = Pieces(u) => TrimSpace(t) = TrimSpace(u)
         /\ Pieces(t) \in Seq(Range(Pieces(t))) /\ Pieces(u) \in Seq(Range(Pieces(u)))
<1>1. /\ Pieces(TrimSpace(t)) = Pieces(t) /\ Pieces(TrimSpace(u)) = Pieces(u)
  BY DEF Pieces, TrimSpace, Text
<1>2. /\ t.val = Word(Pieces(t)) /\ Pieces(t) \in Seq(Range(Pieces(t)))
      /\ u.val = Word(Pieces(u)) /\ Pieces(u) \in Seq(Range(Pieces(u)))
  BY TextsAssumption
<1>3. Pieces(t) = Pieces(u) => TrimSpace(t) = TrimSpace(u)
  BY <1>2 DEF TrimSpace
<1> QED
  BY <1>1, <1>2, <1>3

\* A tagged text begins with its tag, a number behind it or not.
LEMMA TagInFront ==
  ASSUME NEW t \in Texts, ~IsBlank(t), NEW tag, NEW n
  PROVE  /\ TaggedText(tag, t)[1] = Other(tag)
         /\ (TaggedText(tag, t) \o <<Number(n)>>)[1] = Other(tag)
<1> DEFINE S == Range(Pieces(t)) \union {Other(tag), Number(n)}
<1>1. Pieces(t) \in Seq(Range(Pieces(t))) /\ Pieces(TrimSpace(t)) = Pieces(t)
  BY TextLegible
<1>2. Pieces(t) \in Seq(S) /\ Other(tag) \in S /\ Number(n) \in S
  BY <1>1
<1> HIDE DEF S
<1>3. ASSUME NEW s \in Seq(S), NEW a \in S, NEW b \in S
      PROVE  (<<a>> \o s)[1] = a /\ (<<a>> \o s \o <<b>>)[1] = a
  OBVIOUS
<1> QED
  BY <1>1, <1>2, <1>3 DEF TaggedText

\* Tag, text and number can be read off.
LEMMA TaggedLegible ==
  ASSUME NEW t \in Texts, NEW u \in Texts, ~IsBlank(t), ~IsBlank(u), NEW tag, NEW m, NEW n
  PROVE  /\ TaggedText(tag, t) = TaggedText(tag, u) => TrimSpace(t) = TrimSpace(u)
         /\ TaggedText(tag, t) \o <<Number(m)>> = TaggedText(tag, u) \o <<Number(n)>>
              => TrimSpace(t) = TrimSpace(u) /\ m = n
<1> DEFINE S == Range(Pieces(t)) \union Range(Pieces(u)) \union {Other(tag), Number(m), Number(n)}
<1>1. /\ Pieces(t) \in Seq(Range(Pieces(t))) /\ Pieces(TrimSpace(t)) = Pieces(t)
      /\ Pieces(u) \in Seq(Range(Pieces(u))) /\ Pieces(TrimSpace(u)) = Pieces(u)
      /\ Pieces(t) = Pieces(u) => TrimSpace(t) = TrimSpace(u)
  BY TextLegible
<1>2. /\ Pieces(t) \in Seq(S) /\ Pieces(u) \in Seq(S)
      /\ Other(tag) \in S /\ Number(m) \in S /\ Number(n) \in S
  BY <1>1
<1> HIDE DEF S
<1>3. TaggedText(tag, t) = TaggedText(tag, u) => TrimSpace(t) = TrimSpace(u)
  BY <1>1, <1>2, FrontLegible DEF TaggedText
<1>4. TaggedText(tag, t) \in Seq(S) /\ TaggedText(tag, u) \in Seq(S)
  BY <1>1, <1>2 DEF TaggedText
<1>5. TaggedText(tag, t) \o <<Number(m)>> = TaggedText(tag, u) \o <<Number(n)>>
        => TaggedText(tag, t) = TaggedText(tag, u) /\ Number(m) = Number(n)
  BY <1>2, <1>4, BackLegible
<1> QED
  BY <1>3, <1>5 DEF Number

\* A hash tells the function that computed it, by its tag.
LEMMA FunctionLegible ==
  ASSUME ComputedInv, NEW x \in computed, NEW y \in computed, x.hash = y.hash
  PROVE  x.function = y.function
<1> DEFINE Opened(z) ==
      \/ /\ z.hash[1] = "sha256"
         /\ \/ z.function = "NullifierFor" /\ z.hash[2][1] = Other("zkdex/nullifier/v0")
            \/ z.function = "DestinationHashFor" /\ z.hash[2][1] = Other("zkdex/withdrawAddr/v0")
      \/ /\ z.hash[1] = "mimc"
         /\ \/ z.function = "NullifierForV1"
                 /\ z.hash[2][1][2][1] = Other("zkdex/nullifier/v1")
            \/ z.function = "DestinationHashForV1"
                 /\ z.hash[2][1][2][1] = Other("zkdex/withdrawAddr/v1")
            \/ z.function = "DestinationHashCircuitV1Hex"
                 /\ z.hash[2][1][2][1] = Other("zkdex/destinationField/v1")
            \/ z.function = "NullifierCircuitV1Hex"
                 /\ z.hash[2][1][2][1] = Other("zkdex/secretField/v1")
            \/ z.function = "AccountCommitmentCircuitV1Hex"
                 /\ z.hash[2][1][2][1] = Other("zkdex/ownerField/v1")
<1>1. ASSUME NEW z \in computed
      PROVE  Opened(z)
  <2>1. z.text \in Texts /\ ~IsBlank(z.text) /\ Hashed(z)
    BY DEF ComputedInv
  <2>2. \A tag, n : /\ TaggedText(tag, z.text)[1] = Other(tag)
                    /\ (TaggedText(tag, z.text) \o <<Number(n)>>)[1] = Other(tag)
    BY <2>1, TagInFront
  <2>3. CASE z.function = "NullifierFor" /\ z.hash = NullifierFor(z.text, z.number)
    BY <2>2, <2>3 DEF NullifierFor
  <2>4. CASE z.function = "DestinationHashFor" /\ z.hash = DestinationHashFor(z.text)
    BY <2>2, <2>4 DEF DestinationHashFor
  <2>5. CASE z.function = "NullifierForV1" /\ z.hash = NullifierForV1(z.text, z.number)
    BY <2>2, <2>5 DEF NullifierForV1, mimcV1, MiMC
  <2>6. CASE z.function = "DestinationHashForV1" /\ z.hash = DestinationHashForV1(z.text)
    BY <2>2, <2>6 DEF DestinationHashForV1, mimcV1, MiMC
  <2>7. CASE z.function = "DestinationHashCircuitV1Hex"
               /\ z.hash = DestinationHashCircuitV1Hex(z.text)
    BY <2>2, <2>7 DEF DestinationHashCircuitV1Hex, FieldForV1, MiMC
  <2>8. CASE z.function = "NullifierCircuitV1Hex"
               /\ z.hash = NullifierCircuitV1Hex(z.text, z.number)
    BY <2>2, <2>8 DEF NullifierCircuitV1Hex, FieldForV1, MiMC
  <2>9. CASE z.function = "AccountCommitmentCircuitV1Hex"
               /\ z.hash = AccountCommitmentCircuitV1Hex(z.text, z.number)
    BY <2>2, <2>9 DEF AccountCommitmentCircuitV1Hex, FieldForV1, MiMC
  <2> HIDE DEF Opened
  <2> QED
    BY <2>1, <2>3, <2>4, <2>5, <2>6, <2>7, <2>8, <2>9 DEF Hashed
<1>2. Opened(x) /\ Opened(y)
  BY <1>1
<1>3. x.hash[1] = y.hash[1] /\ x.hash[2][1] = y.hash[2][1]
      /\ x.hash[2][1][2][1] = y.hash[2][1][2][1]
  OBVIOUS
<1>4. \A v, w : Other(v) = Other(w) => v = w
  BY DEF Other
<1>5. CASE x.hash[1] = "sha256"
  BY <1>2, <1>3, <1>4, <1>5
<1>6. CASE x.hash[1] = "mimc"
  BY <1>2, <1>3, <1>4, <1>6
<1> QED
  BY <1>2, <1>5, <1>6

\* Two computed hashes are equal only when one function computed both, for the
\* same text but for white space around it and for the same number, modulo the
\* field where it is an element of its own: no bar in a text makes a nullifier
\* pass for another or for a destination hash.
THEOREM HashesSeparateHolds == Spec => []HashesSeparate
<1>1. ComputedInv => HashesSeparate
  <2> SUFFICES ASSUME ComputedInv, NEW x \in computed, NEW y \in computed
               PROVE  x.hash = y.hash <=>
                        /\ x.function = y.function
                        /\ TrimSpace(x.text) = TrimSpace(y.text)
                        /\ SameNumber(x, y)
    BY DEF HashesSeparate
  <2>1. /\ x.text \in Texts /\ ~IsBlank(x.text) /\ Hashed(x)
        /\ y.text \in Texts /\ ~IsBlank(y.text) /\ Hashed(y)
    BY DEF ComputedInv
  <2>2. \A tag : TaggedText(tag, x.text) = TaggedText(tag, y.text)
                   => TrimSpace(x.text) = TrimSpace(y.text)
    BY <2>1, TaggedLegible
  <2>3. \A tag : TaggedText(tag, x.text) \o <<Number(x.number)>>
                     = TaggedText(tag, y.text) \o <<Number(y.number)>>
                   => TrimSpace(x.text) = TrimSpace(y.text) /\ x.number = y.number
    BY <2>1, TaggedLegible
  <2>4. ASSUME TrimSpace(x.text) = TrimSpace(y.text)
        PROVE  \A tag : TaggedText(tag, x.text) = TaggedText(tag, y.text)
    BY <2>4 DEF TaggedText
  <2>5. x.hash = y.hash => x.function = y.function
    BY FunctionLegible
  <2>6. CASE x.function # y.function
    BY <2>5, <2>6
  <2>7. CASE x.function = y.function /\ x.function = "NullifierFor"
    <3> DEFINE Payload(z) == TaggedText("zkdex/nullifier/v0", z.text) \o <<Number(z.number)>>
    <3>1. x.hash = <<"sha256", Payload(x)>> /\ y.hash = <<"sha256", Payload(y)>>
      BY <2>1, <2>7 DEF Hashed, NullifierFor
    <3>2. Payload(x) = Payload(y) <=> TrimSpace(x.text) = TrimSpace(y.text) /\ x.number = y.number
      BY <2>3, <2>4
    <3> HIDE DEF Payload
    <3> QED
      BY <2>7, <3>1, <3>2 DEF SameNumber
  <2>8. CASE x.function = y.function /\ x.function = "NullifierForV1"
    <3> DEFINE Payload(z) == TaggedText("zkdex/nullifier/v1", z.text) \o <<Number(z.number)>>
    <3>1. x.hash = mimcV1(Payload(x)) /\ y.hash = mimcV1(Payload(y))
      BY <2>1, <2>8 DEF Hashed, NullifierForV1
    <3>2. Payload(x) = Payload(y) <=> TrimSpace(x.text) = TrimSpace(y.text) /\ x.number = y.number
      BY <2>3, <2>4
    <3> HIDE DEF Payload
    <3> QED
      BY <2>8, <3>1, <3>2 DEF mimcV1, MiMC, SameNumber
  <2>9. CASE x.function = y.function /\ x.function = "DestinationHashFor"
    BY <2>1, <2>2, <2>4, <2>9 DEF Hashed, DestinationHashFor, SameNumber
  <2>10. CASE x.function = y.function /\ x.function = "DestinationHashForV1"
    BY <2>1, <2>2, <2>4, <2>10 DEF Hashed, DestinationHashForV1, mimcV1, MiMC, SameNumber
  <2>11. CASE x.function = y.function /\ x.function = "DestinationHashCircuitV1Hex"
    BY <2>1, <2>2, <2>4, <2>11
    DEF Hashed, DestinationHashCircuitV1Hex, FieldForV1, MiMC, SameNumber
  <2>12. CASE x.function = y.function /\ x.function = "NullifierCircuitV1Hex"
    BY <2>1, <2>2, <2>4, <2>12
    DEF Hashed, NullifierCircuitV1Hex, FieldForV1, MiMC, SameNumber
  <2>13. CASE x.function = y.function /\ x.function = "AccountCommitmentCircuitV1Hex"
    BY <2>1, <2>2, <2>4, <2>13
    DEF Hashed, AccountCommitmentCircuitV1Hex, FieldForV1, MiMC, SameNumber
  <2> QED
    BY <2>1, <2>6, <2>7, <2>8, <2>9, <2>10, <2>11, <2>12, <2>13 DEF Hashed
<1> QED
  BY <1>1, ComputedInvariant, PTL

-----------------------------------------------------------------------------
(***************************************************************************)
(* Circuits.                                                               *)
(***************************************************************************)

\* The inputs of the three circuits are records of these fields.
IsAccountInput(in) ==
  in = [ownerField |-> in.ownerField, oldBalance |-> in.oldBalance,
        depositAmount |-> in.depositAmount, withdrawAmount |-> in.withdrawAmount,
        newBalance |-> in.newBalance, expected |-> in.expected]

IsNullifierInput(in) ==
  in = [secretField |-> in.secretField, nonceField |-> in.nonceField, expected |-> in.expected]

IsDestinationInput(in) ==
  in = [destinationField |-> in.destinationField, expected |-> in.expected]

\* Other public values leave the rest of an input as it is.
LEMMA ExpectedReplaced ==
  ASSUME NEW in, NEW e
  PROVE  LET out == [in EXCEPT !.expected = e] IN
         /\ IsAccountInput(in) =>
              /\ IsAccountInput(out)
              /\ out.ownerField = in.ownerField /\ out.oldBalance = in.oldBalance
              /\ out.depositAmount = in.depositAmount /\ out.withdrawAmount = in.withdrawAmount
              /\ out.newBalance = in.newBalance /\ out.expected = e
         /\ IsNullifierInput(in) =>
              /\ IsNullifierInput(out)
              /\ out.secretField = in.secretField /\ out.nonceField = in.nonceField
              /\ out.expected = e
         /\ IsDestinationInput(in) =>
              /\ IsDestinationInput(out)
              /\ out.destinationField = in.destinationField /\ out.expected = e
<1> DEFINE out == [in EXCEPT !.expected = e]
<1>1. ASSUME IsAccountInput(in)
      PROVE  /\ IsAccountInput(out)
             /\ out.ownerField = in.ownerField /\ out.oldBalance = in.oldBalance
             /\ out.depositAmount = in.depositAmount /\ out.withdrawAmount = in.withdrawAmount
             /\ out.newBalance = in.newBalance /\ out.expected = e
  <2>1. out \in [ownerField : {in.ownerField}, oldBalance : {in.oldBalance},
                 depositAmount : {in.depositAmount}, withdrawAmount : {in.withdrawAmount},
                 newBalance : {in.newBalance}, expected : {e}]
    BY <1>1 DEF IsAccountInput
  <2> HIDE DEF out
  <2> QED
    BY <2>1 DEF IsAccountInput
<1>2. ASSUME IsNullifierInput(in)
      PROVE  /\ IsNullifierInput(out)
             /\ out.secretField = in.secretField /\ out.nonceField = in.nonceField
             /\ out.expected = e
  <2>1. out \in [secretField : {in.secretField}, nonceField : {in.nonceField}, expected : {e}]
    BY <1>2 DEF IsNullifierInput
  <2> HIDE DEF out
  <2> QED
    BY <2>1 DEF IsNullifierInput
<1>3. ASSUME IsDestinationInput(in)
      PROVE  /\ IsDestinationInput(out)
             /\ out.destinationField = in.destinationField /\ out.expected = e
  <2>1. out \in [destinationField : {in.destinationField}, expected : {e}]
    BY <1>3 DEF IsDestinationInput
  <2> HIDE DEF out
  <2> QED
    BY <2>1 DEF IsDestinationInput
<1> QED
  BY <1>1, <1>2, <1>3

\* Of four values, the first, the second and the last two.
LEMMA FourValues ==
  ASSUME NEW a, NEW b, NEW c, NEW d
  PROVE  /\ SubSeq(<<a, b, c, d>>, 1, 1) = <<a>>
         /\ SubSeq(<<a, b, c, d>>, 2, 2) = <<b>>
         /\ SubSeq(<<a, b, c, d>>, 3, 4) = <<c, d>>
<1> DEFINE S == {a, b, c, d}
           p == <<a, b, c, d>>
<1>1. p \in Seq(S) /\ Len(p) = 4 /\ p[1] = a /\ p[2] = b /\ p[3] = c /\ p[4] = d
  OBVIOUS
<1> HIDE DEF p, S
<1>2. ASSUME NEW q \in Seq(S), Len(q) = 1
      PROVE  q = <<q[1]>>
  BY <1>2
<1>3. ASSUME NEW q \in Seq(S), Len(q) = 2
      PROVE  q = <<q[1], q[2]>>
  BY <1>3
<1>4. /\ SubSeq(p, 1, 1) \in Seq(S) /\ Len(SubSeq(p, 1, 1)) = 1 /\ SubSeq(p, 1, 1)[1] = a
      /\ SubSeq(p, 2, 2) \in Seq(S) /\ Len(SubSeq(p, 2, 2)) = 1 /\ SubSeq(p, 2, 2)[1] = b
  BY <1>1
<1>5. /\ SubSeq(p, 3, 4) \in Seq(S) /\ Len(SubSeq(p, 3, 4)) = 2
      /\ SubSeq(p, 3, 4)[1] = c /\ SubSeq(p, 3, 4)[2] = d
  <2>1. \A i \in 1..2 : SubSeq(p, 3, 4)[i] = p[i + 2]
    BY <1>1
  <2>2. SubSeq(p, 3, 4) \in Seq(S) /\ Len(SubSeq(p, 3, 4)) = 2
    BY <1>1, SubSeqProperties
  <2> QED
    BY <1>1, <2>1, <2>2
<1>6. /\ SubSeq(p, 1, 1) = <<a>> /\ SubSeq(p, 2, 2) = <<b>> /\ SubSeq(p, 3, 4) = <<c, d>>
  BY <1>2, <1>3, <1>4, <1>5
<1> QED
  BY <1>6 DEF p

\* What a circuit has proved satisfies it.
ProvedInv ==
  \A x \in proved :
    /\ x = [circuit |-> x.circuit, input |-> x.input]
    /\ \/ x.circuit = "account" /\ AccountCircuit(x.input)
       \/ x.circuit = "nullifier" /\ NullifierCircuit(x.input)
       \/ x.circuit = "destination" /\ DestinationCircuit(x.input)
       \/ x.circuit = "settlement" /\ SettlementCircuit(x.input)

\* Nothing is proved at first.
LEMMA ProvedInit == Init => ProvedInv
BY DEF Init, NothingProved, ProvedInv

\* A circuit proves only what satisfies it.
LEMMA ProvedStep == ProvedInv /\ [Next]_<<computed, proved>> => ProvedInv'
<1> SUFFICES ASSUME ProvedInv, [Next]_<<computed, proved>>
             PROVE  ProvedInv'
  OBVIOUS
<1>1. CASE UNCHANGED proved
  BY <1>1 DEF ProvedInv
<1>2. ASSUME NEW circuit, NEW in, AddProof(circuit, in),
             \/ circuit = "account" /\ AccountCircuit(in)
             \/ circuit = "nullifier" /\ NullifierCircuit(in)
             \/ circuit = "destination" /\ DestinationCircuit(in)
             \/ circuit = "settlement" /\ SettlementCircuit(in)
      PROVE  ProvedInv'
  <2> DEFINE new == [circuit |-> circuit, input |-> in]
  <2>1. new.circuit = circuit /\ new.input = in
    OBVIOUS
  <2>2. proved' = proved \union {new}
    BY <1>2 DEF AddProof
  <2>3. new = [circuit |-> new.circuit, input |-> new.input]
    OBVIOUS
  <2> HIDE DEF new
  <2> QED
    BY <1>2, <2>1, <2>2, <2>3 DEF ProvedInv
<1>3. ASSUME NEW b \in Batches, ProveAccountCommitmentCircuitV1(b)
      PROVE  ProvedInv'
  BY <1>2, <1>3 DEF ProveAccountCommitmentCircuitV1
<1>4. ASSUME NEW b \in Batches, ProveNullifierCircuitV1(b)
      PROVE  ProvedInv'
  BY <1>2, <1>4 DEF ProveNullifierCircuitV1
<1>5. ASSUME NEW b \in Batches, ProveDestinationHashCircuitV1(b)
      PROVE  ProvedInv'
  BY <1>2, <1>5 DEF ProveDestinationHashCircuitV1
<1>6. ASSUME NEW b \in Batches, ProveSettlement(b)
      PROVE  ProvedInv'
  BY <1>2, <1>6 DEF ProveSettlement
<1> QED
  BY <1>1, <1>3, <1>4, <1>5, <1>6 DEF Next, ProveSome

\* What was proved is known in every behaviour.
LEMMA ProvedInvariant == Spec => []ProvedInv
BY ProvedInit, ProvedStep, PTL DEF Spec

\* A proof made of an input satisfies its circuit.
LEMMA ProvedSatisfies ==
  ASSUME ProvedInv, NEW circuit, NEW in, Proved(circuit, in)
  PROVE  \/ circuit = "account" /\ AccountCircuit(in)
         \/ circuit = "nullifier" /\ NullifierCircuit(in)
         \/ circuit = "destination" /\ DestinationCircuit(in)
         \/ circuit = "settlement" /\ SettlementCircuit(in)
<1> DEFINE x == [circuit |-> circuit, input |-> in]
<1>1. x \in proved /\ x.circuit = circuit /\ x.input = in
  BY DEF Proved
<1> HIDE DEF x
<1> QED
  BY <1>1 DEF ProvedInv

\* The parts of a batch, written out.
LEMMA PartsWrittenOut ==
  ASSUME NEW b
  PROVE  LET account == b.accounts[1]
             in      == BalanceInput(b)
             bound   == BoundWithdrawal(b)
             a       == OfBatch(AccountPart(b), 3, 4, b)
             n       == OfBatch(NullifierPart(b), 1, 1, b)
             d       == OfBatch(DestinationPart(b), 2, 2, b)
         IN  /\ a.ownerField = OwnerField(account.owner)
             /\ a.oldBalance = in.oldBalance /\ a.newBalance = in.newBalance
             /\ a.depositAmount = in.depositAmount /\ a.withdrawAmount = in.withdrawAmount
             /\ a.expected = <<Element(b.update.oldStateRoot), Element(b.update.newStateRoot)>>
             /\ n.secretField = SecretField(account.userSecret)
             /\ n.nonceField = Amount(account.nonce)
             /\ n.expected = <<Element(bound.nullifier)>>
             /\ d.destinationField = DestinationField(bound.destination)
             /\ d.expected = <<Element(bound.destinationHash)>>
<1> DEFINE account == b.accounts[1]
           in      == BalanceInput(b)
           bound   == BoundWithdrawal(b)
           public  == PublicWitness(V1, b.update, bound)
<1>1. public = <<Element(bound.nullifier), Element(bound.destinationHash),
                 Element(b.update.oldStateRoot), Element(b.update.newStateRoot)>>
  BY DEF PublicWitness, V0, V1
<1>2. /\ SubSeq(public, 1, 1) = <<Element(bound.nullifier)>>
      /\ SubSeq(public, 2, 2) = <<Element(bound.destinationHash)>>
      /\ SubSeq(public, 3, 4) = <<Element(b.update.oldStateRoot), Element(b.update.newStateRoot)>>
  BY <1>1, FourValues
<1>3. /\ AccountPart(b).ownerField = OwnerField(account.owner)
      /\ AccountPart(b).oldBalance = in.oldBalance /\ AccountPart(b).newBalance = in.newBalance
      /\ AccountPart(b).depositAmount = in.depositAmount
      /\ AccountPart(b).withdrawAmount = in.withdrawAmount
  <2>1. in.oldBalance = Amount(account.oldBalance) /\ in.newBalance = Amount(account.newBalance)
    BY DEF BalanceInput
  <2>2. \A v : Amount(Text(Numeral(v))) = v
    BY DEF Amount, Text, Numeral
  <2> HIDE DEF in
  <2> QED
    BY <2>1, <2>2 DEF AccountPart, AccountInput, in
<1>4. NullifierPart(b).secretField = SecretField(account.userSecret)
      /\ NullifierPart(b).nonceField = Amount(account.nonce)
  BY DEF NullifierPart, NullifierInput
<1>5. DestinationPart(b).destinationField = DestinationField(bound.destination)
  BY DEF DestinationPart, DestinationInput
<1> HIDE DEF public, in, account, bound
<1>6. /\ IsAccountInput(AccountPart(b)) /\ IsNullifierInput(NullifierPart(b))
      /\ IsDestinationInput(DestinationPart(b))
  BY DEF IsAccountInput, AccountPart, AccountInput, IsNullifierInput, NullifierPart,
         NullifierInput, IsDestinationInput, DestinationPart, DestinationInput
<1>7. \A p : /\ OfBatch(p, 1, 1, b) = [p EXCEPT !.expected = SubSeq(public, 1, 1)]
            /\ OfBatch(p, 2, 2, b) = [p EXCEPT !.expected = SubSeq(public, 2, 2)]
            /\ OfBatch(p, 3, 4, b) = [p EXCEPT !.expected = SubSeq(public, 3, 4)]
  BY DEF OfBatch, public, bound
<1> DEFINE a == OfBatch(AccountPart(b), 3, 4, b)
           n == OfBatch(NullifierPart(b), 1, 1, b)
           d == OfBatch(DestinationPart(b), 2, 2, b)
<1>8. /\ a = [AccountPart(b) EXCEPT !.expected = SubSeq(public, 3, 4)]
      /\ n = [NullifierPart(b) EXCEPT !.expected = SubSeq(public, 1, 1)]
      /\ d = [DestinationPart(b) EXCEPT !.expected = SubSeq(public, 2, 2)]
  BY <1>7
<1> HIDE DEF a, n, d
<1>9. /\ a.ownerField = AccountPart(b).ownerField /\ a.oldBalance = AccountPart(b).oldBalance
      /\ a.depositAmount = AccountPart(b).depositAmount
      /\ a.withdrawAmount = AccountPart(b).withdrawAmount
      /\ a.newBalance = AccountPart(b).newBalance /\ a.expected = SubSeq(public, 3, 4)
      /\ n.secretField = NullifierPart(b).secretField
      /\ n.nonceField = NullifierPart(b).nonceField /\ n.expected = SubSeq(public, 1, 1)
      /\ d.destinationField = DestinationPart(b).destinationField
      /\ d.expected = SubSeq(public, 2, 2)
  BY <1>6, <1>8, ExpectedReplaced
<1> QED
  BY <1>2, <1>3, <1>4, <1>5, <1>9 DEF in, account, bound, a, n, d

\* The circuits of the parts of a batch hold, taken together, exactly when the
\* settlement circuit holds of the batch.
LEMMA PartsAndWhole ==
  ASSUME NEW b
  PROVE  SettlementCircuit(b) <=>
           /\ AccountCircuit(OfBatch(AccountPart(b), 3, 4, b))
           /\ NullifierCircuit(OfBatch(NullifierPart(b), 1, 1, b))
           /\ DestinationCircuit(OfBatch(DestinationPart(b), 2, 2, b))
<1> DEFINE account == b.accounts[1]
           in      == BalanceInput(b)
           bound   == BoundWithdrawal(b)
           a       == OfBatch(AccountPart(b), 3, 4, b)
           n       == OfBatch(NullifierPart(b), 1, 1, b)
           d       == OfBatch(DestinationPart(b), 2, 2, b)
<1>1. /\ a.ownerField = OwnerField(account.owner)
      /\ a.oldBalance = in.oldBalance /\ a.newBalance = in.newBalance
      /\ a.depositAmount = in.depositAmount /\ a.withdrawAmount = in.withdrawAmount
      /\ a.expected = <<Element(b.update.oldStateRoot), Element(b.update.newStateRoot)>>
      /\ n.secretField = SecretField(account.userSecret)
      /\ n.nonceField = Amount(account.nonce)
      /\ n.expected = <<Element(bound.nullifier)>>
      /\ d.destinationField = DestinationField(bound.destination)
      /\ d.expected = <<Element(bound.destinationHash)>>
  BY PartsWrittenOut
<1> HIDE DEF a, n, d
<1>2. AccountCircuit(a) <=>
        /\ BalanceCircuit(b)
        /\ Element(b.update.oldStateRoot) = AccountCommitment(account.owner, in.oldBalance)
        /\ Element(b.update.newStateRoot) = AccountCommitment(account.owner, in.newBalance)
  BY <1>1 DEF AccountCircuit, BalanceCircuit, AccountCommitment
<1>3. NullifierCircuit(n) <=>
        Element(bound.nullifier) =
          MiMC(<<SecretField(account.userSecret), Scalar(Amount(account.nonce))>>)
  BY <1>1 DEF NullifierCircuit
<1>4. DestinationCircuit(d) <=>
        Element(bound.destinationHash) = MiMC(<<DestinationField(bound.destination)>>)
  BY <1>1 DEF DestinationCircuit
<1>5. SettlementCircuit(b) <=>
        /\ BalanceCircuit(b)
        /\ Element(bound.nullifier) =
             MiMC(<<SecretField(account.userSecret), Scalar(Amount(account.nonce))>>)
        /\ Element(bound.destinationHash) = MiMC(<<DestinationField(bound.destination)>>)
        /\ Element(b.update.oldStateRoot) = AccountCommitment(account.owner, in.oldBalance)
        /\ Element(b.update.newStateRoot) = AccountCommitment(account.owner, in.newBalance)
  BY DEF SettlementCircuit, PublicWitness, V0, V1
<1> QED
  BY <1>2, <1>3, <1>4, <1>5 DEF a, n, d

\* When the three stand-alone circuits have proved the parts of a batch with
\* its own public values, the settlement circuit proves the batch.
THEOREM PartsMakeTheWholeHolds == Spec => []PartsMakeTheWhole
<1>1. ProvedInv => PartsMakeTheWhole
  <2> SUFFICES ASSUME ProvedInv, NEW b \in Batches, PartsProved(b)
               PROVE  SettlementCircuit(b)
    BY DEF PartsMakeTheWhole
  <2>1. /\ AccountCircuit(OfBatch(AccountPart(b), 3, 4, b))
        /\ NullifierCircuit(OfBatch(NullifierPart(b), 1, 1, b))
        /\ DestinationCircuit(OfBatch(DestinationPart(b), 2, 2, b))
    BY ProvedSatisfies DEF PartsProved
  <2> QED
    BY <2>1, PartsAndWhole
<1> QED
  BY <1>1, ProvedInvariant, PTL

\* And with a batch proved, each of its parts can be.
THEOREM WholeHasItsPartsHolds == Spec => []WholeHasItsParts
<1>1. ProvedInv => WholeHasItsParts
  BY ProvedSatisfies, PartsAndWhole DEF WholeHasItsParts
<1> QED
  BY <1>1, ProvedInvariant, PTL
=============================================================================
