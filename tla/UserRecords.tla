---------------------------- MODULE UserRecords ----------------------------
(***************************************************************************)
(* What the user service keeps of one user (user-service, src/addresses,   *)
(* src/profiles, src/verification): every statement names the user, so     *)
(* those of two users never meet.  No handler opens a transaction, and     *)
(* nothing but primary keys is unique.  Names, numbers, places and files   *)
(* are data.                                                               *)
(***************************************************************************)
EXTENDS Service

CONSTANTS
  Addresses,   \* the addresses the user may save
  MaxWrites    \* bound: registrations and documents that are counted

ASSUME UserRecordsAssumption == IsFiniteSet(Addresses) /\ MaxWrites \in Nat

VARIABLES
  address,     \* table addresses: "absent", "plain" or "default"
  profile,     \* table profiles: whether the row exists
  licensed,    \* tables driver_profiles and merchant_profiles
  document     \* table verification_docs: the rows of one docType

userVars == <<job, address, profile, licensed, document>>

\* `saves` counts the registrations that were written; only drivers go online.
Kinds == {"driver", "merchant"}
DriverProfile == [status : {"absent", "PENDING", "APPROVED", "REJECTED"},
                  online : BOOLEAN, saves : 0..MaxWrites]
MerchantProfile == {p \in DriverProfile : ~p.online}
Unregistered == [status |-> "absent", online |-> FALSE, saves |-> 0]

\* The rows of one docType: how many, and whether the oldest is verified.
Documents == [rows : 0..MaxWrites, verified : BOOLEAN]

AddressRow == {"absent", "plain", "default"}

UserJob ==
  [step : {"insert", "update"}, address : Addresses]
    \cup [step : {"register"}, kind : Kinds]
    \cup [step : {"online"}, value : BOOLEAN]
    \cup [step : {"upload", "probe"}]
    \cup [step : {"replace"}, unverify : BOOLEAN]

UserInit ==
  /\ AllIdle
  /\ address = [a \in Addresses |-> "absent"]
  /\ profile = FALSE
  /\ licensed = [k \in Kinds |-> Unregistered]
  /\ document = [rows |-> 0, verified |-> FALSE]

-----------------------------------------------------------------------------
(* Addresses.                                                              *)

Defaults == {a \in Addresses : address[a] = "default"}

\* UPDATE addresses SET isDefault = false WHERE userId = ...
Cleared == [a \in Addresses |-> IF a \in Defaults THEN "plain" ELSE address[a]]

\* The database gives every address a key of its own.
NewAddress(a) ==
  address[a] = "absent" /\ \A s \in Slots : ~(At(s, "insert") /\ job[s].address = a)

\* create() of an address that is not the default.
AddAddress(a) ==
  /\ NewAddress(a)
  /\ address' = [address EXCEPT ![a] = "plain"]
  /\ UNCHANGED <<job, profile, licensed, document>>

\* Mutant: a new default is saved without clearing the old one.
SkipClear(s, a, st) ==
  /\ IsIdle(s)
  /\ IF st = "insert" THEN NewAddress(a) ELSE address[a] # "absent"
  /\ Goto(s, [step |-> st, address |-> a])
  /\ UNCHANGED <<address, profile, licensed, document>>

\* create() or update() of a default: the other defaults are cleared first.
ClearDefaults(s, a, st) ==
  /\ IsIdle(s)
  /\ IF st = "insert" THEN NewAddress(a) ELSE address[a] # "absent"
  /\ address' = Cleared
  /\ Goto(s, [step |-> st, address |-> a])
  /\ UNCHANGED <<profile, licensed, document>>

\* Then the address itself is written; an UPDATE of a deleted row does nothing.
SaveDefault(s) ==
  /\ job[s].step \in {"insert", "update"}
  /\ LET a == job[s].address
     IN address' = IF At(s, "update") /\ address[a] = "absent" THEN address
                   ELSE [address EXCEPT ![a] = "default"]
  /\ Return(s)
  /\ UNCHANGED <<profile, licensed, document>>

\* update() with isDefault false.
Undefault(a) ==
  /\ address[a] # "absent"
  /\ address' = [address EXCEPT ![a] = "plain"]
  /\ UNCHANGED <<job, profile, licensed, document>>

DeleteAddress(a) ==
  /\ address[a] # "absent"
  /\ address' = [address EXCEPT ![a] = "absent"]
  /\ UNCHANGED <<job, profile, licensed, document>>

-----------------------------------------------------------------------------
(* Profiles: save() of the primary key inserts the row or overwrites it.   *)

SaveProfile ==
  /\ profile' = TRUE
  /\ UNCHANGED <<job, address, licensed, document>>

DeleteProfile ==
  /\ profile' = FALSE
  /\ UNCHANGED <<job, address, licensed, document>>

-----------------------------------------------------------------------------
(* Registration and verification of drivers and merchants.                 *)

\* registerDriver(), registerMerchant(): there is no profile yet.
RegisterLicense(s, k) ==
  /\ IsIdle(s)
  /\ licensed[k].status = "absent"
  /\ Goto(s, [step |-> "register", kind |-> k])
  /\ UNCHANGED <<address, profile, licensed, document>>

\* save(): its SELECT finds nothing and it inserts, which fails if the key has
\* come into being since; or it finds the row and overwrites its data.  The
\* status is not among them.
SaveRegistration(s) ==
  /\ At(s, "register")
  /\ LET k == job[s].kind
     IN \/ /\ licensed[k].saves < MaxWrites
           /\ licensed' = [licensed EXCEPT ![k].saves = @ + 1,
                             ![k].status = IF @ = "absent" THEN "PENDING" ELSE @]
        \/ /\ licensed[k].status # "absent"
           /\ UNCHANGED licensed
  /\ Return(s)
  /\ UNCHANGED <<address, profile, document>>

\* A decision is taken from any status; isOnline is left as it is.
Verify(k, st) ==
  /\ licensed[k].status # "absent"
  /\ licensed' = [licensed EXCEPT ![k].status = st]
  /\ UNCHANGED <<job, address, profile, document>>

ApproveDriver == Verify("driver", "APPROVED")
RejectDriver == Verify("driver", "REJECTED")
ApproveMerchant == Verify("merchant", "APPROVED")
RejectMerchant == Verify("merchant", "REJECTED")

\* setDriverOnline() checks the status it reads ...
SetOnline(s, v) ==
  /\ IsIdle(s)
  /\ licensed["driver"].status = "APPROVED"
  /\ Goto(s, [step |-> "online", value |-> v])
  /\ UNCHANGED <<address, profile, licensed, document>>

\* ... and writes the flag by the key.
WriteOnline(s) ==
  /\ At(s, "online")
  /\ licensed' = [licensed EXCEPT !["driver"].online = job[s].value]
  /\ Return(s)
  /\ UNCHANGED <<address, profile, document>>

-----------------------------------------------------------------------------
(* Documents.                                                              *)

\* uploadDocument(): is there a row of this type?
Upload(s) ==
  /\ IsIdle(s)
  /\ Goto(s, [step |-> IF document.rows = 0 THEN "upload" ELSE "probe"])
  /\ UNCHANGED <<address, profile, licensed, document>>

InsertDocument(s) ==
  /\ At(s, "upload")
  /\ document.rows < MaxWrites
  /\ document' = [document EXCEPT !.rows = @ + 1]
  /\ Return(s)
  /\ UNCHANGED <<address, profile, licensed>>

\* save(): `verified` is written only if its SELECT sees it set ...
ProbeDocument(s) ==
  /\ At(s, "probe")
  /\ Goto(s, [step |-> "replace", unverify |-> document.verified])
  /\ UNCHANGED <<address, profile, licensed, document>>

\* ... so a verification in between stays, on a file nobody has seen.
ReplaceDocument(s) ==
  /\ At(s, "replace")
  /\ document' = [document EXCEPT !.verified = @ /\ ~job[s].unverify]
  /\ Return(s)
  /\ UNCHANGED <<address, profile, licensed>>

VerifyDocument ==
  /\ document.rows > 0
  /\ document' = [document EXCEPT !.verified = TRUE]
  /\ UNCHANGED <<job, address, profile, licensed>>

-----------------------------------------------------------------------------
\* A query throws or the process stops; what was written stays.
AbandonUser(s) ==
  /\ ~IsIdle(s)
  /\ Return(s)
  /\ UNCHANGED <<address, profile, licensed, document>>

\* What each controller serves.
AddressRequests ==
  \/ \E a \in Addresses : AddAddress(a) \/ Undefault(a) \/ DeleteAddress(a)
  \/ \E s \in Slots :
       \/ SaveDefault(s)
       \/ \E a \in Addresses, st \in {"insert", "update"} : ClearDefaults(s, a, st)

ProfileRequests == SaveProfile \/ DeleteProfile

VerificationRequests ==
  \/ VerifyDocument
  \/ ApproveDriver \/ RejectDriver \/ ApproveMerchant \/ RejectMerchant
  \/ \E s \in Slots :
       \/ \E k \in Kinds : RegisterLicense(s, k)
       \/ \E v \in BOOLEAN : SetOnline(s, v)
       \/ SaveRegistration(s) \/ WriteOnline(s)
       \/ Upload(s) \/ InsertDocument(s) \/ ProbeDocument(s) \/ ReplaceDocument(s)

UserNext ==
  \/ AddressRequests \/ ProfileRequests \/ VerificationRequests
  \/ \E s \in Slots : AbandonUser(s)

UserSpec == UserInit /\ [][UserNext]_userVars

-----------------------------------------------------------------------------
(* Properties.                                                             *)

\* The tables and the locals of the handlers have their types.
UserTypeOK ==
  /\ address \in [Addresses -> AddressRow]
  /\ profile \in BOOLEAN
  /\ licensed \in [Kinds -> DriverProfile] /\ licensed["merchant"] \in MerchantProfile
  /\ document \in Documents
  /\ job \in [Slots -> UserJob \cup {Idle}]

\* What the handlers look up before they write is unique but for requests that
\* overlap: the default address, the registration, the document of a type.
UserRowsWithinOverlap ==
  /\ Cardinality(Defaults) <= Cardinality(Slots)
  /\ \A k \in Kinds : licensed[k].saves <= Cardinality(Slots)
  /\ document.rows <= Cardinality(Slots)
=============================================================================
