--------------------------- MODULE EmissionsRecord ---------------------------
(***************************************************************************)
(* The emissions chaincode (fabric/chaincode/emissionscontract): the       *)
(* records it keeps in the world state of the channel, of which the field  *)
(* that decides everything else is tokenId - null until the record is      *)
(* audited, then the id of the Ethereum token minted for it.  The other    *)
(* fields (dates, amounts, party, document) are payload and left out.      *)
(*                                                                         *)
(* One invocation is one Fabric transaction: a method that throws leaves   *)
(* the world state alone, so it is an action that is not enabled.          *)
(***************************************************************************)

CONSTANTS
  Record,     \* uuids of emissions records
  Token,      \* ids of minted tokens
  Absent,     \* there is no record under this uuid
  Null,       \* tokenId: null, the value recordEmissions writes
  Batch,      \* the sets of uuids clients pass in one call
  Undefined   \* the field is missing: updateEmissionsRecord without its last argument

VARIABLE tokenId   \* Record -> the tokenId of the record stored there

TokenField == Token \cup {Absent, Null, Undefined}

ASSUME BatchAssumption == Batch \subseteq SUBSET Record
ASSUME FieldAssumption == {Absent, Null} \cap (Token \cup {Undefined}) = {}

EmissionsTypeOK == tokenId \in [Record -> TokenField]

EmissionsInit == tokenId = [r \in Record |-> Absent]

Recorded(r) == tokenId[r] # Absent

\* Mutation: records that have a token are valid too.
GetValidEmissionsAll(uuids) == uuids

\* getValidEmissions skips a record whose tokenId is not null; "undefined" is not.
GetValidEmissions(uuids) == {r \in uuids : tokenId[r] = Null}

GetValidEmissionsSucceeds(uuids) == \A r \in uuids : Recorded(r)

\* Three arguments at least: the token, the party and one uuid.
UpdateEmissionsMintedTokenSucceeds(uuids) ==
  uuids # {} /\ \A r \in uuids : Recorded(r)

WithToken(uuids, k) == [r \in Record |-> IF r \in uuids THEN k ELSE tokenId[r]]

-----------------------------------------------------------------------------
RecordEmissions(r) ==
  /\ ~Recorded(r)
  /\ tokenId' = [tokenId EXCEPT ![r] = Null]

\* The whole record is overwritten with the arguments.  They are strings, so the
\* field becomes some token id or is missing, never null again.
UpdateEmissionsRecord(r, k) ==
  /\ Recorded(r)
  /\ tokenId' = [tokenId EXCEPT ![r] = k]

\* A token id already there is overwritten.
UpdateEmissionsMintedToken(uuids, k) ==
  /\ UpdateEmissionsMintedTokenSucceeds(uuids)
  /\ tokenId' = WithToken(uuids, k)

EmissionsNext ==
  \/ \E r \in Record : RecordEmissions(r)
  \/ \E r \in Record, k \in Token \cup {Undefined} : UpdateEmissionsRecord(r, k)
  \/ \E uuids \in Batch, k \in Token : UpdateEmissionsMintedToken(uuids, k)
=============================================================================
