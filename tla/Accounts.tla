------------------------------- MODULE Accounts -------------------------------
(***************************************************************************)
(* Accounts and tokens: services/auth_service.go under the handlers of     *)
(* handlers/auth_handler.go.                                               *)
(*                                                                         *)
(* A callback of an OAuth provider fetches the profile of an identity,     *)
(* looks for its account and saves or creates it in three separate steps,  *)
(* which other callbacks, registrations and changes of the profile at the  *)
(* provider come between.  The table has unique indexes on email and on    *)
(* username, none on the identity (models/user.go); its rows are never     *)
(* deleted, so it is a sequence indexed by the primary key.                *)
(***************************************************************************)
EXTENDS Naturals, Sequences, FiniteSets

CONSTANTS
    Identities,     \* (provider, provider_id) pairs
    Local,          \* the provider of accounts made by Register
    Callbacks,      \* the calls of OAuthCallback
    IdentityOf,     \* who makes each of them
    Emails, Names,
    EmailsOf,       \* the emails a provider may give for each identity
    FirstProfile,   \* each identity's profile at its provider, at first
    MaxChanges,     \* bound: changes of profiles
    MaxFailures     \* bound: failing statements

Profiles == [email : Emails, name : Names]

ASSUME AccountsAssumption ==
    /\ Local \notin Identities
    /\ IdentityOf \in [Callbacks -> Identities]
    /\ FirstProfile \in [Identities -> Profiles]
    /\ EmailsOf \in [Identities -> SUBSET Emails]
    /\ MaxChanges \in Nat /\ MaxFailures \in Nat

VARIABLES
    profile,    \* what the provider says of each identity now
    users,      \* table users
    pc,         \* where each callback is
    info,       \* OAuthUserInfo, as it was fetched
    row,        \* the key of the account it found, created or answered with
    tokens,     \* the claims handed out: account and email
    changes,    \* changes of profiles so far
    failures,
    called      \* history: the names each identity has had at its provider

vars == <<profile, users, pc, info, row, tokens, changes, failures, called>>

Points == {"fetch", "find", "save", "create", "done", "failed"}
Rows   == [identity : Identities \cup {Local}, email : Emails, name : Names]

TypeOK ==
    /\ profile \in [Identities -> Profiles]
    /\ users \in Seq(Rows)
    /\ pc \in [Callbacks -> Points]
    /\ info \in [Callbacks -> Profiles]
    /\ row \in [Callbacks -> Nat]
    /\ tokens \subseteq [user : DOMAIN users, email : Emails]
    /\ changes \in 0..MaxChanges /\ failures \in 0..MaxFailures
    /\ called \in [Identities -> SUBSET Names]

Init ==
    /\ profile = FirstProfile
    /\ users = <<>> /\ tokens = {} /\ changes = 0 /\ failures = 0
    /\ pc = [c \in Callbacks |-> "fetch"]
    /\ info = [c \in Callbacks |-> FirstProfile[IdentityOf[c]]]
    /\ row = [c \in Callbacks |-> 0]
    /\ called = [i \in Identities |-> {FirstProfile[i].name}]

Goto(c, point, key) ==
    /\ pc' = [pc EXCEPT ![c] = point]
    /\ row' = [row EXCEPT ![c] = key]

Failure == failures < MaxFailures /\ failures' = failures + 1

\* The unique indexes.
EmailTaken(email) == \E u \in DOMAIN users : users[u].email = email
NameTaken(name)   == \E u \in DOMAIN users : users[u].name = name

Row(identity, p) == [identity |-> identity, email |-> p.email, name |-> p.name]

\* GenerateTokens: access and refresh token of an account, as the handler
\* holds it.
Grant(user, email) == tokens' = tokens \cup {[user |-> user, email |-> email]}

-----------------------------------------------------------------------------
(* OAuthCallback and FindOrCreateOAuthUser.                                *)

\* ExchangeCode and GetUserInfo, which SignIn takes apart.
Fetch(c) ==
    /\ pc[c] = "fetch"
    /\ \/ /\ info' = [info EXCEPT ![c] = profile[IdentityOf[c]]]
          /\ Goto(c, "find", 0)
       \/ Goto(c, "failed", 0) /\ UNCHANGED info
    /\ UNCHANGED <<profile, users, tokens, changes, failures, called>>

AccountsOf(i) == {u \in DOMAIN users : users[u].identity = i}

\* Slip: an error other than ErrRecordNotFound is taken for a find.
FindInErrors(c) ==
    /\ pc[c] = "find"
    /\ \/ \E u \in AccountsOf(IdentityOf[c]) :
              /\ \A v \in AccountsOf(IdentityOf[c]) : u <= v
              /\ Goto(c, "save", u)
              /\ UNCHANGED failures
       \/ /\ AccountsOf(IdentityOf[c]) = {}
          /\ Goto(c, "create", 0)
          /\ UNCHANGED failures
       \/ Failure /\ Goto(c, "save", 0)
    /\ UNCHANGED <<profile, users, info, tokens, changes, called>>

\* First: the lowest key.  Any error, and not only ErrRecordNotFound, leads
\* to the creation of an account.
Find(c) ==
    /\ pc[c] = "find"
    /\ \/ \E u \in AccountsOf(IdentityOf[c]) :
              /\ \A v \in AccountsOf(IdentityOf[c]) : u <= v
              /\ Goto(c, "save", u)
              /\ UNCHANGED failures
       \/ /\ AccountsOf(IdentityOf[c]) = {}
          /\ Goto(c, "create", 0)
          /\ UNCHANGED failures
       \/ Failure /\ Goto(c, "create", 0)
    /\ UNCHANGED <<profile, users, info, tokens, changes, called>>

\* The row that was read is saved with the new email, its name as it was; the
\* error of an email that is taken, or any other, is ignored.
Save(c) ==
    LET email == info[c].email
        taken == \E u \in DOMAIN users \ {row[c]} : users[u].email = email
    IN
    /\ pc[c] = "save"
    /\ \/ /\ ~taken
          /\ users' = [users EXCEPT ![row[c]].email = email]
          /\ UNCHANGED failures
       \/ taken /\ UNCHANGED <<users, failures>>
       \/ Failure /\ UNCHANGED users
    /\ Grant(row[c], email)
    /\ Goto(c, "done", row[c])
    /\ UNCHANGED <<profile, info, changes, called>>

\* Slip: whoever holds the email is signed in.
CreateOrLink(c) ==
    /\ pc[c] = "create"
    /\ \/ \E u \in DOMAIN users :
              /\ users[u].email = info[c].email
              /\ Grant(u, info[c].email) /\ Goto(c, "done", u)
              /\ UNCHANGED <<users, failures>>
       \/ /\ ~EmailTaken(info[c].email) /\ ~NameTaken(info[c].name)
          /\ users' = Append(users, Row(IdentityOf[c], info[c]))
          /\ Grant(Len(users) + 1, info[c].email)
          /\ Goto(c, "done", Len(users) + 1)
          /\ UNCHANGED failures
    /\ UNCHANGED <<profile, info, changes, called>>

\* Slip: a name that is taken does not matter.
CreateNamesake(c) ==
    /\ pc[c] = "create"
    /\ ~EmailTaken(info[c].email)
    /\ users' = Append(users, Row(IdentityOf[c], info[c]))
    /\ Grant(Len(users) + 1, info[c].email)
    /\ Goto(c, "done", Len(users) + 1)
    /\ UNCHANGED <<profile, info, changes, failures, called>>

Create(c) ==
    /\ pc[c] = "create"
    /\ \/ /\ ~EmailTaken(info[c].email) /\ ~NameTaken(info[c].name)
          /\ users' = Append(users, Row(IdentityOf[c], info[c]))
          /\ Grant(Len(users) + 1, info[c].email)
          /\ Goto(c, "done", Len(users) + 1)
          /\ UNCHANGED failures
       \/ /\ EmailTaken(info[c].email) \/ NameTaken(info[c].name)
          /\ Goto(c, "failed", 0)
          /\ UNCHANGED <<users, tokens, failures>>
       \/ Failure /\ Goto(c, "failed", 0) /\ UNCHANGED <<users, tokens>>
    /\ UNCHANGED <<profile, info, changes, called>>

-----------------------------------------------------------------------------
(* Register, Login and RefreshToken: one statement each.                   *)

Register(p) ==
    /\ ~EmailTaken(p.email) /\ ~NameTaken(p.name)
    /\ users' = Append(users, Row(Local, p))
    /\ Grant(Len(users) + 1, p.email)
    /\ UNCHANGED <<profile, pc, info, row, changes, failures, called>>

\* The password is the right one.
Login(u) ==
    /\ users[u].identity = Local
    /\ Grant(u, users[u].email)
    /\ UNCHANGED <<profile, users, pc, info, row, changes, failures, called>>

\* The claims of the token only say which row to read.
RefreshToken(t) ==
    /\ Grant(t.user, users[t.user].email)
    /\ UNCHANGED <<profile, users, pc, info, row, changes, failures, called>>

-----------------------------------------------------------------------------
\* Someone edits a profile at the provider.
ChangeProfile(i) ==
    /\ changes < MaxChanges
    /\ changes' = changes + 1
    /\ \E p \in Profiles :
           /\ p.email \in EmailsOf[i]
           /\ profile' = [profile EXCEPT ![i] = p]
           /\ called' = [called EXCEPT ![i] = @ \cup {p.name}]
    /\ UNCHANGED <<users, pc, info, row, tokens, failures>>

Next ==
    \/ \E c \in Callbacks : Fetch(c) \/ Find(c) \/ Save(c) \/ Create(c)
    \/ \E p \in Profiles : Register(p)
    \/ \E u \in DOMAIN users : Login(u)
    \/ \E t \in tokens : RefreshToken(t)
    \/ \E i \in Identities : ChangeProfile(i)

Spec == Init /\ [][Next]_vars

-----------------------------------------------------------------------------
(* Properties.                                                             *)

\* auth_handler.go:76 "find or create user": FindOrCreateOAuthUser
\* (auth_service.go:126) has neither a transaction nor a unique index on the
\* identity, and takes every error of its search for a missing account.  What
\* holds second accounts back is the unique index on username, which it never
\* mentions: an identity has no more accounts than it has had names at its
\* provider, one if it never changed its name.
OneAccountPerName ==
    \A i \in Identities : Cardinality(AccountsOf(i)) <= Cardinality(called[i])

\* A callback is answered with the account of its own identity, whoever else
\* uses its email or its name, and an account never changes hands.
SignedInAsThemselves ==
    \A c \in Callbacks :
        pc[c] \in {"save", "done"} =>
            row[c] \in DOMAIN users /\ users[row[c]].identity = IdentityOf[c]

(* Inductive strengthening, for the proofs of SignInProofs.                *)

\* No two rows have one name, and the name of an account, of an answer and of
\* a profile is one that its identity has had.
NamesInv ==
    /\ \A u, v \in DOMAIN users : users[u].name = users[v].name => u = v
    /\ \A i \in Identities :
           IsFiniteSet(called[i]) /\ profile[i].name \in called[i]
    /\ \A c \in Callbacks : info[c].name \in called[IdentityOf[c]]
    /\ \A u \in DOMAIN users : users[u].identity # Local =>
           users[u].name \in called[users[u].identity]
=============================================================================
