---------------------------- MODULE FakeElection ----------------------------
(***************************************************************************)
(* The committee election the fake engines carry: fakeElection of          *)
(* consensus/minerva/minerva.go.  It has a fixed committee, signs a block  *)
(* with every member's key (GenerateFakeSigns) and tells which member      *)
(* signed each of a list of votes (VerifySigns).                           *)
(*                                                                         *)
(* A key pair is one value: the private key signs, and the same value      *)
(* stands for the public key that the signature recovers to.  A signature  *)
(* is [by, over]: the key that made it and the fields it was made over.    *)
(*                                                                         *)
(* Between the signing and the verification a vote travels as JSON         *)
(* (PbftSignJson), and what arrives is what the sender marshalled or an    *)
(* object the network made of it.                                          *)
(***************************************************************************)
EXTENDS PbftSignJson, SequencesExt

CONSTANTS
    PriKeys,     \* fakeElection.privates, in their order
    Outsiders,   \* keys of nobody in the committee
    VoteAgree,   \* types.VoteAgree
    Stranger,    \* the key a signature recovers to over fields it was not
                 \* made over: some key, of nobody
    MaxSigns,    \* model bound: the longest list of votes
    MaxChanges   \* model bound: deliveries that change a vote or repeat it

Keys == ToSet(PriKeys) \cup Outsiders

Payload ==
    [Result : Results, FastHeight : Blocks \cup {NULL},
     FastHash : Blocks \cup {ZeroHash}]

Signature == [by : Keys, over : Payload]

ASSUME
    /\ IsInjective(PriKeys)
    /\ Outsiders \cap ToSet(PriKeys) = {}
    /\ Stranger \notin Keys
    /\ VoteAgree \in Results
    /\ Signs = Signature
    /\ MaxSigns \in Nat /\ MaxSigns >= Len(PriKeys)
    /\ MaxChanges \in Nat

VARIABLES
    signs,     \* the votes on their way from the signers to the verifier
    verified,  \* the last call of VerifySigns: its argument and both results
    changes    \* deliveries so far that changed a vote or repeated it

vars == <<signs, verified, changes>>

-----------------------------------------------------------------------------

\* newFakeElection: one member for every private key, in the same order.
Member(k) == [Publickey |-> k, Flag |-> "StateUsedFlag", MType |-> "TypeFixed"]

members == [i \in DOMAIN PriKeys |-> Member(PriKeys[i])]

\* GetCommittee: the one committee, whatever the block number.
GetCommittee(fastNumber) == members

\* VerifySwitchInfo and FinalizeCommittee accept every transition.
VerifySwitchInfo(fastnumber, info) == NULL

FinalizeCommittee(block) == NULL

\* PbftSign.HashWithNoSign: what of a vote is signed.
HashWithNoSign(s) ==
    [Result |-> s.Result, FastHeight |-> s.FastHeight, FastHash |-> s.FastHash]

\* crypto.Sign
Sign(payload, k) == [by |-> k, over |-> payload]

\* crypto.SigToPub: the signer's key if the signature is over this payload,
\* another key if it is over another, none if the bytes are no signature.
SigToPub(payload, sig) ==
    CASE sig \in {NULL, NoBytes} -> NULL
      [] sig.over = payload      -> sig.by
      [] OTHER                   -> Stranger

\* GenerateFakeSigns: an agreeing vote on the block by every private key.
GenerateFakeSigns(fb) ==
    [i \in DOMAIN PriKeys |->
        LET voteSign == [ZeroSign EXCEPT !.Result = VoteAgree,
                                         !.FastHeight = fb, !.FastHash = fb]
        IN  [voteSign EXCEPT !.Sign = Sign(HashWithNoSign(voteSign), PriKeys[i])]]

\* A variant of MemberOf that takes the member at the vote's place in the
\* list.
MemberAt(s, i) == IF i \in DOMAIN members THEN members[i] ELSE NULL

\* The inner loop of VerifySigns on vote s, the i-th of the list: the member
\* with the recovered public key, nil if there is none.  The error of
\* SigToPub is dropped.
MemberOf(s, i) ==
    LET pubkey == SigToPub(HashWithNoSign(s), s.Sign)
        found  == {m \in Range(members) : m.Publickey = pubkey}
    IN  IF found = {} THEN NULL ELSE CHOOSE m \in found : TRUE

\* A variant of VerifySigns with results as long as the committee.
VerifySignsCommitteeSized(ss) ==
    [members |-> [i \in DOMAIN members |->
                     IF i \in DOMAIN ss THEN MemberOf(ss[i], i) ELSE NULL],
     errs    |-> [i \in DOMAIN members |-> NULL]]

\* VerifySigns: the members, and errors that are never set.
VerifySigns(ss) ==
    [members |-> [i \in DOMAIN ss |-> MemberOf(ss[i], i)],
     errs    |-> [i \in DOMAIN ss |-> NULL]]

-----------------------------------------------------------------------------

Init ==
    /\ signs = <<>>
    /\ verified = NULL
    /\ changes = 0

\* A fake engine signs a block; what was verified before is of no interest
\* any more.
Generate(fb) ==
    /\ signs' = GenerateFakeSigns(fb)
    /\ changes' = 0
    /\ verified' = NULL

\* The verifier is handed the votes as they are now.
Verify ==
    /\ signs # <<>>
    /\ verified' = [signs |-> signs] @@ VerifySigns(signs)
    /\ UNCHANGED <<signs, changes>>

\* What the network may deliver in place of the object obj: obj, obj with
\* one field missing or changed, or no object at all.  A signature is
\* replaced by an outsider's over the same fields, or by no bytes.
Deliverable(obj) ==
    {obj, Malformed}
        \cup {[f \in Fields \ {g} |-> obj[f]] : g \in Fields}
        \cup {[obj EXCEPT !.FastHeight = b] : b \in Blocks}
        \cup {[obj EXCEPT !.FastHash = b] : b \in Blocks}
        \cup {[obj EXCEPT !.Result = r] : r \in Results}
        \cup {[obj EXCEPT !.Sign = sig] :
                 sig \in {NoBytes} \cup
                         {Sign([f \in Fields \ {"Sign"} |-> obj[f]], k) :
                             k \in Outsiders}}

\* Vote i is marshalled, sent, and unmarshalled into a new PbftSign or
\* into one that holds a vote received before.
Deliver(i) ==
    \E input \in Deliverable(MarshalJSON(signs[i])),
       target \in {ZeroSign} \cup ToSet(signs) :
        /\ signs' = [signs EXCEPT ![i] = UnmarshalJSON(target, input)]
        /\ changes' = changes + (IF signs'[i] = signs[i] THEN 0 ELSE 1)

\* Vote i arrives a second time.
Redeliver(i) ==
    /\ Len(signs) < MaxSigns
    /\ signs' = Append(signs, UnmarshalJSON(ZeroSign, MarshalJSON(signs[i])))
    /\ changes' = changes + 1

Network ==
    /\ changes < MaxChanges
    /\ \E i \in DOMAIN signs : Deliver(i) \/ Redeliver(i)
    /\ UNCHANGED verified

Next ==
    \/ \E fb \in Blocks : Generate(fb)
    \/ Verify
    \/ Network

Spec == Init /\ [][Next]_vars

-----------------------------------------------------------------------------
(* Properties *)

\* The vote is what a member of the committee signed: its signature is by a
\* committee key and over the fields the vote carries now.
Authentic(s) ==
    /\ s.Sign \in Signature
    /\ s.Sign.by \in ToSet(PriKeys)
    /\ s.Sign.over = HashWithNoSign(s)

TypeOK ==
    /\ signs \in Seq(PbftSign) /\ Len(signs) <= MaxSigns
    /\ changes \in 0 .. MaxChanges
    /\ verified # NULL =>
           /\ verified.signs \in Seq(PbftSign)
           /\ DOMAIN verified.members = DOMAIN verified.signs
           /\ DOMAIN verified.errs = DOMAIN verified.signs
           /\ \A i \in DOMAIN verified.signs :
                  verified.members[i] \in
                      Range(GetCommittee(verified.signs[i].FastHeight)) \cup {NULL}

\* VerifySigns names a member for a vote exactly when that member signed the
\* vote as it stands, and then it names the signer: a vote that arrived with
\* a field changed or missing, signed by an outsider, or without signature
\* counts for nobody, wherever it stands in the list and whatever the other
\* votes are, also when UnmarshalJSON left it the height, the hash, the
\* result or the signature of the vote its target held before; and the
\* votes GenerateFakeSigns made, delivered as they were sent, give the
\* whole committee in its order.
MembersAreTheSigners ==
    verified # NULL =>
        \A i \in DOMAIN verified.signs :
            LET s == verified.signs[i]
            IN  IF Authentic(s)
                    THEN verified.members[i] = Member(s.Sign.by)
                    ELSE verified.members[i] = NULL

\* A vote that is delivered as it was marshalled, into a new PbftSign,
\* arrives as it was sent:
\* UnmarshalJSON of MarshalJSON gives every field back, for every vote that
\* can be on its way, also one that lost its height or its signature on an
\* earlier hop.
DeliveryKeepsTheVote ==
    \A i \in DOMAIN signs :
        LET arrived == UnmarshalJSON(ZeroSign, MarshalJSON(signs[i]))
        IN  /\ \A f \in Fields \ {"Sign"} : arrived[f] = signs[i][f]
            /\ arrived.Sign = IF signs[i].Sign = NULL THEN NoBytes
                                                       ELSE signs[i].Sign

\* VerifySigns returns an error in the slot of every vote that recovers to
\* no member, and none in the others, so that a caller can count the valid
\* votes.  The code never sets an error.
UnknownSignerIsReported ==
    verified # NULL =>
        \A i \in DOMAIN verified.signs :
            (verified.errs[i] # NULL) <=> (verified.members[i] = NULL)

=============================================================================
