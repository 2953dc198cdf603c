-------------------------------- MODULE Accounts --------------------------------
(***************************************************************************)
(* Whose account a caller gets (auth/users/user.service.ts): by the name   *)
(* of a login, by the profile of Google or Facebook (auth/google,          *)
(* auth/facebook), and by the address and phone number of a guest who      *)
(* books or asks for a quotation.  One caller after another: what callers  *)
(* at the same time do is in Sessions.                                     *)
(*                                                                         *)
(* Nothing in the table keeps two accounts from having one address or one  *)
(* number.  An address is compared as it is written: login and the guests  *)
(* write it in lower case, the providers and the profile page do not.      *)
(***************************************************************************)
EXTENDS Integers

CONSTANTS
    Addresses,      \* e-mail addresses, in lower case
    Phones,         \* phone numbers
    Profiles,       \* ids at Google
    MaxAccounts     \* accounts in the instance

Null == "null"
Empty == ""
Slots == 1..MaxAccounts

(* An address as it is written: in capitals or not.                        *)
Written == [address: Addresses, capitals: BOOLEAN]
NoAddress == [address |-> Null, capitals |-> FALSE]
Lower(e) == [e EXCEPT !.capitals = FALSE]

VARIABLES
    accounts,       \* [Slots -> the row of users, or None]
    found,          \* the last caller: [account, email, phone]
    renamed,        \* ghost: accounts whose address came from the profile page
    social          \* ghost: accounts made by a sign-in with Google

vars == <<accounts, found, renamed, social>>

Row == [email: Written \cup {NoAddress}, phone: Phones \cup {Null, Empty},
        profile: Profiles \cup {Null}]
None == [email |-> NoAddress, phone |-> Null, profile |-> Null]
Nobody == [account |-> None, email |-> NoAddress, phone |-> Null]

TypeOK ==
    /\ accounts \in [Slots -> Row] /\ found.account \in Row
    /\ renamed \cup social \subseteq Slots

(* The job that copies third parties' stock has an account of its own,     *)
(* with an empty phone number.                                             *)
Init ==
    /\ \E a \in Addresses :
          accounts = [s \in Slots |->
             IF s = 1 THEN [None EXCEPT !.email = [address |-> a, capitals |-> FALSE],
                                        !.phone = Empty]
             ELSE None]
    /\ found = Nobody /\ renamed = {} /\ social = {}

Taken == {s \in Slots : accounts[s] # None}
Free == Slots \ Taken
Next0 == CHOOSE s \in Free : TRUE

WithEmail(e) == {s \in Taken : accounts[s].email = e}
WithPhone(p) == {s \in Taken : accounts[s].phone = p}

-----------------------------------------------------------------------------
Create(row) ==
    /\ Free # {}
    /\ accounts' = [accounts EXCEPT ![Next0] = row]

Returns(row, e, p) == found' = [account |-> row, email |-> e, phone |-> p]

(* login: an address is put in lower case, and looked up as it is.         *)
LoginByEmail(e) ==
    LET name == Lower(e) IN
    /\ IF WithEmail(name) # {}
       THEN /\ \E s \in WithEmail(name) : Returns(accounts[s], e, Null)
            /\ UNCHANGED accounts
       ELSE LET row == [None EXCEPT !.email = name] IN
            Create(row) /\ Returns(row, e, Null)
    /\ UNCHANGED <<renamed, social>>

LoginByPhone(p) ==
    /\ IF WithPhone(p) # {}
       THEN /\ \E s \in WithPhone(p) : Returns(accounts[s], NoAddress, p)
            /\ UNCHANGED accounts
       ELSE LET row == [None EXCEPT !.phone = p] IN
            Create(row) /\ Returns(row, NoAddress, p)
    /\ UNCHANGED <<renamed, social>>

(* upsert with a profile: the account of that address and that id, or of   *)
(* the address, which gets the id if it has none.                          *)
UpsertSocial(e, id) ==
    LET both == {s \in WithEmail(e) : accounts[s].profile = id}
        any == IF both # {} THEN both ELSE WithEmail(e) IN
    IF any # {}
    THEN /\ \E s \in any :
               LET row == [accounts[s] EXCEPT !.profile = IF @ = Null THEN id ELSE @] IN
               accounts' = [accounts EXCEPT ![s] = row] /\ Returns(row, e, Null)
         /\ UNCHANGED social
    ELSE LET row == [None EXCEPT !.email = e, !.profile = id] IN
         /\ Create(row) /\ Returns(row, e, Null)
         /\ social' = social \cup {Next0}

LoginWithSocial(e, id) ==
    /\ UpsertSocial(e, id)
    /\ UNCHANGED renamed

(* The callbacks of the providers' own pages: a profile without an address *)
(* goes no further, one with an address opens no session row.              *)
GoogleCallback(e, id) == e # NoAddress /\ LoginWithSocial(e, id)
FacebookCallback(e, id) == e # NoAddress /\ LoginWithSocial(e, id)

(* findOrCreateByEmailPhone: the account of the number before that of the  *)
(* address; what the account lacks is not added.                           *)
GuestEmail_AsWritten(e) == e    \* without toLowerCase
GuestEmail(e) == Lower(e)

Guest(e, p) ==
    LET some == IF WithPhone(p) # {} THEN WithPhone(p) ELSE WithEmail(GuestEmail(e)) IN
    /\ IF some # {}
       THEN /\ \E s \in some : Returns(accounts[s], e, p)
            /\ UNCHANGED accounts
       ELSE LET row == [None EXCEPT !.email = GuestEmail(e), !.phone = p] IN
            Create(row) /\ Returns(row, e, p)
    /\ UNCHANGED <<renamed, social>>

(* updateProfile: the address as the user writes it, whoever else has it.  *)
UpdateProfile(s, e) ==
    /\ s \in Taken
    /\ accounts' = [accounts EXCEPT ![s].email = e]
    /\ renamed' = renamed \cup {s}
    /\ UNCHANGED <<found, social>>

Next ==
    \/ \E e \in Written : LoginByEmail(e) \/ \E p \in Phones \cup {Empty} : Guest(e, p)
    \/ \E p \in Phones : LoginByPhone(p)
    \/ \E e \in Written, id \in Profiles :
          LoginWithSocial(e, id) \/ GoogleCallback(e, id) \/ FacebookCallback(e, id)
    \/ \E s \in Slots, e \in Written : UpdateProfile(s, e)

Spec == Init /\ [][Next]_vars

-----------------------------------------------------------------------------
(* A caller gets an account with the address or the number he gave, be it  *)
(* the empty number, which others have too (user.service.ts 78-92).        *)
(* A number has one account; an address has one however it is written, but *)
(* for what the profile page (283) or a provider's profile in capitals     *)
(* (auth.resolver.ts 177) wrote.                                           *)
AccountsHold ==
    /\ found # Nobody =>
          \/ found.phone # Null /\ found.account.phone = found.phone
          \/ found.email # NoAddress /\ Lower(found.account.email) = Lower(found.email)
    /\ \A s, t \in Taken : s # t =>
          /\ accounts[s].phone \in Phones => accounts[s].phone # accounts[t].phone
          /\ accounts[s].email # NoAddress
                /\ Lower(accounts[s].email) = Lower(accounts[t].email)
             => {s, t} \cap (renamed \cup social) # {}
=============================================================================
