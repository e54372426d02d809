----------------------------- MODULE SignInProofs -----------------------------
(* Proofs about Accounts, for any identities, profiles and callbacks, and    *)
(* about SignIn, for any providers, states and types of accounts.           *)
EXTENDS SignIn, SequenceTheorems, FiniteSetTheorems, WellFoundedInduction, TLAPS

-----------------------------------------------------------------------------
(* What the steps do to the table.                                         *)

\* INSERT: one more row, the others as they were.
Inserted(new) ==
    /\ Len(users') = Len(users) + 1
    /\ DOMAIN users' = DOMAIN users \cup {Len(users) + 1}
    /\ Len(users) + 1 \notin DOMAIN users
    /\ \A u \in DOMAIN users : users'[u] = users[u]
    /\ users'[Len(users) + 1] = new

LEMMA Table ==
    ASSUME TypeOK
    PROVE  /\ users \in Seq(Rows) /\ Len(users) \in Nat
           /\ DOMAIN users = 1..Len(users) /\ DOMAIN users \subseteq Nat
           /\ \A u \in DOMAIN users : users[u] \in Rows
BY LenProperties DEF TypeOK

LEMMA Insertion ==
    ASSUME TypeOK, NEW new \in Rows, users' = Append(users, new)
    PROVE  users' \in Seq(Rows) /\ Inserted(new)
<1>1. users \in Seq(Rows) /\ Len(users) \in Nat /\ DOMAIN users = 1..Len(users)
  BY Table
<1>2. /\ Append(users, new) \in Seq(Rows)
      /\ Len(Append(users, new)) = Len(users) + 1
      /\ \A i \in 1..Len(users) : Append(users, new)[i] = users[i]
      /\ Append(users, new)[Len(users) + 1] = new
  BY <1>1, AppendProperties
<1>3. DOMAIN Append(users, new) = 1..(Len(users) + 1)
  BY <1>2, LenProperties
<1> QED BY <1>1, <1>2, <1>3 DEF Inserted

\* Save leaves everything but one email alone.
SameAccounts ==
    /\ DOMAIN users' = DOMAIN users
    /\ \A u \in DOMAIN users : /\ users'[u].identity = users[u].identity
                               /\ users'[u].name = users[u].name

LEMMA EmailRewritten ==
    ASSUME TypeOK, NEW k \in DOMAIN users, NEW email \in Emails,
           users' = [users EXCEPT ![k].email = email]
    PROVE  users' \in Seq(Rows) /\ SameAccounts
<1>1. /\ users \in Seq(Rows) /\ Len(users) \in Nat
      /\ DOMAIN users = 1..Len(users)
      /\ \A u \in DOMAIN users : users[u] \in Rows
  BY Table
<1>2. /\ DOMAIN users' = DOMAIN users
      /\ users' = [u \in DOMAIN users |-> users'[u]]
      /\ \A u \in DOMAIN users :
             users'[u] = IF u = k THEN [users[u] EXCEPT !.email = email]
                         ELSE users[u]
  BY <1>1
<1>3. \A u \in DOMAIN users : /\ users'[u] \in Rows
                              /\ users'[u].identity = users[u].identity
                              /\ users'[u].name = users[u].name
  BY <1>1, <1>2 DEF Rows
<1>4. users' \in [1..Len(users) -> Rows]
  BY <1>1, <1>2, <1>3
<1>5. users' \in Seq(Rows)
  BY <1>1, <1>4, IsASeq
<1> QED BY <1>2, <1>3, <1>5 DEF SameAccounts

LEMMA SaveKeeps ==
    ASSUME TypeOK, SignedInAsThemselves, NEW c \in Callbacks, Save(c)
    PROVE  /\ users' \in Seq(Rows) /\ SameAccounts
           /\ row[c] \in DOMAIN users /\ info[c].email \in Emails
<1>1. pc[c] = "save"
  BY DEF Save
<1>2. row[c] \in DOMAIN users /\ info[c].email \in Emails
  BY <1>1 DEF SignedInAsThemselves, TypeOK, Profiles
<1>3. \/ users' = [users EXCEPT ![row[c]].email = info[c].email]
      \/ UNCHANGED users
  BY Zenon DEF Save
<1>4. CASE UNCHANGED users
  BY <1>2, <1>4, Table DEF SameAccounts
<1> QED BY <1>2, <1>3, <1>4, EmailRewritten

LEMMA Created ==
    ASSUME TypeOK, NEW c \in Callbacks, Create(c)
    PROVE  LET new == Row(IdentityOf[c], info[c]) IN
           /\ new \in Rows /\ info[c] \in Profiles
           /\ \/ UNCHANGED <<users, tokens>> /\ Goto(c, "failed", 0)
              \/ /\ users' = Append(users, new)
                 /\ ~NameTaken(info[c].name)
                 /\ Grant(Len(users) + 1, info[c].email)
                 /\ Goto(c, "done", Len(users) + 1)
           /\ failures' \in 0..MaxFailures
           /\ pc[c] = "create"
           /\ UNCHANGED <<profile, info, changes, called>>
<1>1. info[c] \in Profiles /\ Row(IdentityOf[c], info[c]) \in Rows
  BY AccountsAssumption DEF TypeOK, Row, Rows, Profiles
<1>2. UNCHANGED failures \/ Failure
  BY Zenon DEF Create
<1>3. failures' \in 0..MaxFailures
  BY <1>2, AccountsAssumption DEF TypeOK, Failure
<1> QED BY <1>1, <1>3, Zenon DEF Create

\* Only the actor's own place and key change.
LEMMA GotoMoves ==
    ASSUME TypeOK, NEW c \in Callbacks, NEW point \in Points, NEW key \in Nat,
           Goto(c, point, key)
    PROVE  /\ pc' \in [Callbacks -> Points] /\ row' \in [Callbacks -> Nat]
           /\ pc'[c] = point /\ row'[c] = key
           /\ \A d \in Callbacks : d # c => pc'[d] = pc[d] /\ row'[d] = row[d]
BY DEF Goto, TypeOK

LEMMA FindMoves ==
    ASSUME TypeOK, NEW c \in Callbacks, Find(c)
    PROVE  /\ \/ \E key \in AccountsOf(IdentityOf[c]) : Goto(c, "save", key)
              \/ Goto(c, "create", 0)
           /\ failures' \in 0..MaxFailures
           /\ UNCHANGED <<profile, users, info, tokens, changes, called>>
<1>1. /\ \/ \E key \in AccountsOf(IdentityOf[c]) : Goto(c, "save", key)
         \/ Goto(c, "create", 0)
      /\ UNCHANGED failures \/ Failure
      /\ UNCHANGED <<profile, users, info, tokens, changes, called>>
  BY Zenon DEF Find
<1>2. failures' \in 0..MaxFailures
  BY <1>1, AccountsAssumption DEF TypeOK, Failure
<1> QED BY <1>1, <1>2

LEMMA FetchMoves ==
    ASSUME TypeOK, NEW c \in Callbacks, Fetch(c)
    PROVE  /\ \/ /\ info' = [info EXCEPT ![c] = profile[IdentityOf[c]]]
                 /\ Goto(c, "find", 0)
              \/ UNCHANGED info /\ Goto(c, "failed", 0)
           /\ UNCHANGED <<profile, users, tokens, changes, failures, called>>
BY Zenon DEF Fetch

LEMMA SaveMoves ==
    ASSUME TypeOK, SignedInAsThemselves, NEW c \in Callbacks, Save(c)
    PROVE  /\ Goto(c, "done", row[c]) /\ Grant(row[c], info[c].email)
           /\ pc[c] = "save"
           /\ failures' \in 0..MaxFailures
           /\ UNCHANGED <<profile, info, changes, called>>
<1>1. UNCHANGED failures \/ Failure
  BY Zenon DEF Save
<1>2. failures' \in 0..MaxFailures
  BY <1>1, AccountsAssumption DEF TypeOK, Failure
<1> QED BY <1>2, Zenon DEF Save

LEMMA ChangeMoves ==
    ASSUME TypeOK, NEW i \in Identities, ChangeProfile(i)
    PROVE  /\ profile' \in [Identities -> Profiles]
           /\ called' \in [Identities -> SUBSET Names]
           /\ \A j \in Identities : profile'[j] = profile[j] \/ j = i
           /\ \A j \in Identities :
                  called'[j] = called[j] \cup (IF j = i THEN {profile'[i].name} ELSE {})
           /\ changes' \in 0..MaxChanges
           /\ UNCHANGED <<users, pc, info, row, tokens, failures>>
<1>1. PICK p \in Profiles : /\ profile' = [profile EXCEPT ![i] = p]
                            /\ called' = [called EXCEPT ![i] = @ \cup {p.name}]
  BY DEF ChangeProfile
<1>2. /\ profile' \in [Identities -> Profiles] /\ profile'[i] = p
      /\ called' \in [Identities -> SUBSET Names]
      /\ called'[i] = called[i] \cup {p.name}
      /\ \A j \in Identities :
             j # i => profile'[j] = profile[j] /\ called'[j] = called[j]
  BY <1>1 DEF TypeOK, Profiles
<1>3. changes' \in 0..MaxChanges
  BY AccountsAssumption DEF ChangeProfile, TypeOK
<1> QED BY <1>2, <1>3 DEF ChangeProfile

\* Tokens name rows: a step that keeps the rows and grants for one of them
\* keeps them typed.
LEMMA GrantTyped ==
    ASSUME TypeOK, NEW user \in DOMAIN users', NEW email \in Emails,
           DOMAIN users \subseteq DOMAIN users', Grant(user, email)
    PROVE  tokens' \subseteq [user : DOMAIN users', email : Emails]
BY DEF Grant, TypeOK

-----------------------------------------------------------------------------
(* The inductive invariant.                                                *)

LEMMA InitInv == Init => TypeOK /\ SignedInAsThemselves /\ NamesInv
<1> SUFFICES ASSUME Init PROVE TypeOK /\ SignedInAsThemselves /\ NamesInv
  OBVIOUS
<1>1. users \in Seq(Rows) /\ DOMAIN users = {}
  BY EmptySeq DEF Init
<1>2. called \in [Identities -> SUBSET Names]
  BY AccountsAssumption DEF Init, Profiles
<1>3. TypeOK
  BY <1>1, <1>2, AccountsAssumption DEF Init, TypeOK, Points
<1>4. \A i \in Identities : IsFiniteSet(called[i]) /\ profile[i].name \in called[i]
  BY FS_Singleton DEF Init
<1>5. \A c \in Callbacks : info[c].name \in called[IdentityOf[c]]
  BY AccountsAssumption DEF Init
<1> QED BY <1>1, <1>3, <1>4, <1>5 DEF Init, SignedInAsThemselves, NamesInv

LEMMA StepTyped ==
    TypeOK /\ SignedInAsThemselves /\ [Next]_vars => TypeOK'
<1> SUFFICES ASSUME TypeOK, SignedInAsThemselves, [Next]_vars PROVE TypeOK'
  OBVIOUS
<1>0. /\ users \in Seq(Rows) /\ Len(users) \in Nat
      /\ DOMAIN users = 1..Len(users) /\ DOMAIN users \subseteq Nat
      /\ \A u \in DOMAIN users : users[u] \in Rows
  BY Table
<1> USE AccountsAssumption DEF Points
<1>1. ASSUME NEW c \in Callbacks, Fetch(c) PROVE TypeOK'
  <2>1. pc' \in [Callbacks -> Points] /\ row' \in [Callbacks -> Nat]
    BY <1>1, FetchMoves, GotoMoves
  <2>2. info' \in [Callbacks -> Profiles]
    BY <1>1, FetchMoves DEF TypeOK
  <2> QED BY <1>1, <2>1, <2>2, FetchMoves DEF TypeOK
<1>2. ASSUME NEW c \in Callbacks, Find(c) PROVE TypeOK'
  <2>1. AccountsOf(IdentityOf[c]) \subseteq Nat
    BY <1>0 DEF AccountsOf
  <2>2. pc' \in [Callbacks -> Points] /\ row' \in [Callbacks -> Nat]
    BY <1>2, <2>1, FindMoves, GotoMoves
  <2> QED BY <1>2, <2>2, FindMoves DEF TypeOK
<1>3. ASSUME NEW c \in Callbacks, Save(c) PROVE TypeOK'
  <2>1. /\ users' \in Seq(Rows) /\ DOMAIN users' = DOMAIN users
        /\ row[c] \in DOMAIN users /\ info[c].email \in Emails
    BY <1>3, SaveKeeps DEF SameAccounts
  <2>2. pc' \in [Callbacks -> Points] /\ row' \in [Callbacks -> Nat]
    BY <1>0, <1>3, <2>1, SaveMoves, GotoMoves
  <2>3. tokens' \subseteq [user : DOMAIN users', email : Emails]
    BY <1>3, <2>1, SaveMoves, GrantTyped
  <2> QED BY <1>3, <2>1, <2>2, <2>3, SaveMoves DEF TypeOK
<1>4. ASSUME NEW c \in Callbacks, Create(c) PROVE TypeOK'
  <2> DEFINE new == Row(IdentityOf[c], info[c])
  <2>1. new \in Rows /\ info[c].email \in Emails
    BY <1>4, Created DEF Profiles
  <2> HIDE DEF new
  <2>2. CASE UNCHANGED <<users, tokens>> /\ Goto(c, "failed", 0)
    <3>1. pc' \in [Callbacks -> Points] /\ row' \in [Callbacks -> Nat]
      BY <2>2, GotoMoves
    <3> QED BY <1>4, <2>2, <3>1, Created DEF TypeOK
  <2>3. ASSUME NEW key \in Nat, key = Len(users) + 1,
               users' = Append(users, new),
               Grant(key, info[c].email), Goto(c, "done", key)
        PROVE  TypeOK'
    <3>1. pc' \in [Callbacks -> Points] /\ row' \in [Callbacks -> Nat]
      BY <2>3, GotoMoves
    <3>2. users' \in Seq(Rows) /\ Inserted(new)
      BY <2>1, <2>3, Insertion
    <3>3. key \in DOMAIN users' /\ DOMAIN users \subseteq DOMAIN users'
      BY <2>3, <3>2 DEF Inserted
    <3>4. tokens' \subseteq [user : DOMAIN users', email : Emails]
      BY <2>1, <2>3, <3>3, GrantTyped
    <3> QED BY <1>4, <3>1, <3>2, <3>4, Created DEF TypeOK
  <2>4. PICK key \in Nat : key = Len(users) + 1
    BY <1>0
  <2> QED BY <1>4, <2>2, <2>3, <2>4, Created DEF new
<1>5. ASSUME NEW p \in Profiles, Register(p) PROVE TypeOK'
  <2> DEFINE new == Row(Local, p)
  <2>1. new \in Rows /\ p.email \in Emails
    BY DEF Row, Rows, Profiles
  <2>2. users' \in Seq(Rows) /\ Inserted(new)
    BY <1>5, <2>1, Insertion DEF Register
  <2>3. Len(users) + 1 \in DOMAIN users' /\ DOMAIN users \subseteq DOMAIN users'
    BY <2>2 DEF Inserted
  <2>4. tokens' \subseteq [user : DOMAIN users', email : Emails]
    BY <1>5, <2>1, <2>3 DEF Register, Grant, TypeOK
  <2> QED BY <1>5, <2>2, <2>4 DEF Register, TypeOK
<1>6. ASSUME NEW u \in DOMAIN users, Login(u) PROVE TypeOK'
  BY <1>0, <1>6 DEF Login, Grant, TypeOK, Rows
<1>7. ASSUME NEW t \in tokens, RefreshToken(t) PROVE TypeOK'
  <2>1. t.user \in DOMAIN users
    BY DEF TypeOK
  <2> QED BY <1>0, <1>7, <2>1 DEF RefreshToken, Grant, TypeOK, Rows
<1>8. ASSUME NEW i \in Identities, ChangeProfile(i) PROVE TypeOK'
  BY <1>8, ChangeMoves DEF TypeOK
<1>9. CASE UNCHANGED vars
  BY <1>9 DEF TypeOK, vars
<1> QED BY <1>1, <1>2, <1>3, <1>4, <1>5, <1>6, <1>7, <1>8, <1>9 DEF Next

LEMMA StepSigned ==
    TypeOK /\ SignedInAsThemselves /\ [Next]_vars => SignedInAsThemselves'
<1> SUFFICES ASSUME TypeOK, SignedInAsThemselves, [Next]_vars
             PROVE  SignedInAsThemselves'
  OBVIOUS
<1>0. DOMAIN users \subseteq Nat /\ Len(users) \in Nat
  BY Table
<1> USE AccountsAssumption DEF Points, SignedInAsThemselves
<1>1. ASSUME NEW c \in Callbacks, Fetch(c) PROVE SignedInAsThemselves'
  BY <1>1, FetchMoves, GotoMoves
<1>2. ASSUME NEW c \in Callbacks, Find(c) PROVE SignedInAsThemselves'
  <2>1. UNCHANGED users
    BY <1>2, FindMoves
  <2>2. CASE Goto(c, "create", 0)
    BY <2>1, <2>2, GotoMoves
  <2>3. ASSUME NEW key \in AccountsOf(IdentityOf[c]), Goto(c, "save", key)
        PROVE  SignedInAsThemselves'
    <3>1. key \in DOMAIN users /\ users[key].identity = IdentityOf[c] /\ key \in Nat
      BY <1>0 DEF AccountsOf
    <3> QED BY <2>1, <2>3, <3>1, GotoMoves
  <2> QED BY <1>2, <2>2, <2>3, FindMoves
<1>3. ASSUME NEW c \in Callbacks, Save(c) PROVE SignedInAsThemselves'
  <2>1. SameAccounts /\ row[c] \in Nat
    BY <1>0, <1>3, SaveKeeps
  <2>2. pc[c] = "save" /\ Goto(c, "done", row[c])
    BY <1>3, SaveMoves
  <2>3. /\ pc'[c] = "done" /\ row'[c] = row[c]
        /\ \A d \in Callbacks : d # c => pc'[d] = pc[d] /\ row'[d] = row[d]
    BY <2>1, <2>2, GotoMoves
  <2> QED BY <2>1, <2>2, <2>3 DEF SameAccounts
<1>4. ASSUME NEW c \in Callbacks, Create(c) PROVE SignedInAsThemselves'
  <2> DEFINE new == Row(IdentityOf[c], info[c])
  <2>1. new \in Rows /\ new.identity = IdentityOf[c]
    BY <1>4, Created DEF Row
  <2> HIDE DEF new
  <2>2. CASE UNCHANGED <<users, tokens>> /\ Goto(c, "failed", 0)
    BY <2>2, GotoMoves
  <2>3. ASSUME NEW key \in Nat, key = Len(users) + 1,
               users' = Append(users, new), Goto(c, "done", key)
        PROVE  SignedInAsThemselves'
    <3>1. Inserted(new)
      BY <2>1, <2>3, Insertion
    <3>2. /\ pc'[c] = "done" /\ row'[c] = key
          /\ \A d \in Callbacks : d # c => pc'[d] = pc[d] /\ row'[d] = row[d]
      BY <2>3, GotoMoves
    <3>3. key \in DOMAIN users' /\ users'[key].identity = IdentityOf[c]
      BY <2>1, <2>3, <3>1 DEF Inserted
    <3>4. \A u \in DOMAIN users : u \in DOMAIN users' /\ users'[u] = users[u]
      BY <3>1 DEF Inserted
    <3> QED BY <3>2, <3>3, <3>4
  <2>4. PICK key \in Nat : key = Len(users) + 1
    BY <1>0
  <2> QED BY <1>4, <2>2, <2>3, <2>4, Created DEF new
<1>5. ASSUME NEW p \in Profiles, Register(p) PROVE SignedInAsThemselves'
  <2>1. Row(Local, p) \in Rows
    BY DEF Row, Rows, Profiles
  <2>2. Inserted(Row(Local, p))
    BY <1>5, <2>1, Insertion DEF Register
  <2> QED BY <1>5, <2>2 DEF Register, Inserted
<1>6. ASSUME NEW u \in DOMAIN users, Login(u) PROVE SignedInAsThemselves'
  BY <1>6 DEF Login
<1>7. ASSUME NEW t \in tokens, RefreshToken(t) PROVE SignedInAsThemselves'
  BY <1>7 DEF RefreshToken
<1>8. ASSUME NEW i \in Identities, ChangeProfile(i) PROVE SignedInAsThemselves'
  BY <1>8, ChangeMoves
<1>9. CASE UNCHANGED vars
  BY <1>9 DEF vars
<1> QED BY <1>1, <1>2, <1>3, <1>4, <1>5, <1>6, <1>7, <1>8, <1>9 DEF Next

\* A row that is inserted has a name of its own.
LEMMA InsertNames ==
    ASSUME TypeOK, NamesInv, NEW new \in Rows, Inserted(new),
           ~NameTaken(new.name),
           new.identity # Local => new.name \in called[new.identity],
           UNCHANGED <<profile, info, called>>
    PROVE  NamesInv'
<1>1. \A u \in DOMAIN users' : u \in DOMAIN users \/ users'[u] = new
  BY DEF Inserted
<1>2. \A u \in DOMAIN users : users'[u] = users[u] /\ users[u].name # new.name
  BY DEF Inserted, NameTaken
<1>3. \A u, v \in DOMAIN users' : users'[u].name = users'[v].name => u = v
  BY <1>2 DEF Inserted, NamesInv
<1>4. \A u \in DOMAIN users' : users'[u].identity # Local =>
          users'[u].name \in called'[users'[u].identity]
  BY <1>1, <1>2 DEF NamesInv
<1> QED BY <1>3, <1>4 DEF NamesInv

LEMMA StepNames ==
    TypeOK /\ SignedInAsThemselves /\ NamesInv /\ [Next]_vars => NamesInv'
<1> SUFFICES ASSUME TypeOK, SignedInAsThemselves, NamesInv, [Next]_vars
             PROVE  NamesInv'
  OBVIOUS
<1> USE AccountsAssumption
<1>1. ASSUME NEW c \in Callbacks, Fetch(c) PROVE NamesInv'
  <2>1. UNCHANGED <<profile, users, called>>
    BY <1>1, FetchMoves
  <2>2. \A d \in Callbacks : info'[d].name \in called[IdentityOf[d]]
    BY <1>1, FetchMoves DEF NamesInv, TypeOK
  <2> QED BY <2>1, <2>2 DEF NamesInv
<1>2. ASSUME NEW c \in Callbacks, Find(c) PROVE NamesInv'
  BY <1>2, FindMoves DEF NamesInv
<1>3. ASSUME NEW c \in Callbacks, Save(c) PROVE NamesInv'
  BY <1>3, SaveKeeps, SaveMoves DEF NamesInv, SameAccounts
<1>4. ASSUME NEW c \in Callbacks, Create(c) PROVE NamesInv'
  <2> DEFINE new == Row(IdentityOf[c], info[c])
  <2>1. /\ new \in Rows /\ new.name = info[c].name
        /\ new.identity = IdentityOf[c]
        /\ UNCHANGED <<profile, info, called>>
    BY <1>4, Created DEF Row
  <2>2. CASE UNCHANGED users
    BY <2>1, <2>2 DEF NamesInv
  <2>3. CASE users' = Append(users, new) /\ ~NameTaken(info[c].name)
    <3>1. Inserted(new)
      BY <2>1, <2>3, Insertion
    <3>2. new.name \in called[new.identity]
      BY <2>1 DEF NamesInv
    <3> HIDE DEF new
    <3> QED BY <2>1, <2>3, <3>1, <3>2, InsertNames
  <2> QED BY <1>4, <2>2, <2>3, Created
<1>5. ASSUME NEW p \in Profiles, Register(p) PROVE NamesInv'
  <2> DEFINE new == Row(Local, p)
  <2>1. new \in Rows /\ new.name = p.name /\ new.identity = Local
    BY DEF Row, Rows, Profiles
  <2>2. Inserted(new)
    BY <1>5, <2>1, Insertion DEF Register
  <2> HIDE DEF new
  <2> QED BY <1>5, <2>1, <2>2, InsertNames DEF Register
<1>6. ASSUME NEW u \in DOMAIN users, Login(u) PROVE NamesInv'
  BY <1>6 DEF Login, NamesInv
<1>7. ASSUME NEW t \in tokens, RefreshToken(t) PROVE NamesInv'
  BY <1>7 DEF RefreshToken, NamesInv
<1>8. ASSUME NEW i \in Identities, ChangeProfile(i) PROVE NamesInv'
  <2>1. \A j \in Identities :
            /\ called[j] \subseteq called'[j] /\ IsFiniteSet(called'[j])
            /\ profile'[j].name \in called'[j]
    <3> TAKE j \in Identities
    <3>1. CASE j = i
      <4>1. called'[j] = called[j] \cup {profile'[i].name}
        BY <1>8, <3>1, ChangeMoves
      <4>2. IsFiniteSet(called[j])
        BY DEF NamesInv
      <4>3. IsFiniteSet(called'[j])
        BY <4>1, <4>2, FS_AddElement
      <4> QED BY <3>1, <4>1, <4>3
    <3>2. CASE j # i
      <4>1. called'[j] = called[j] /\ profile'[j] = profile[j]
        BY <1>8, <3>2, ChangeMoves
      <4> QED BY <4>1 DEF NamesInv
    <3> QED BY <3>1, <3>2
  <2>2. \A u \in DOMAIN users : users[u].identity # Local => users[u].identity \in Identities
    BY Table DEF Rows
  <2> QED BY <1>8, <2>1, <2>2, ChangeMoves DEF NamesInv
<1>9. CASE UNCHANGED vars
  BY <1>9 DEF vars, NamesInv
<1> QED BY <1>1, <1>2, <1>3, <1>4, <1>5, <1>6, <1>7, <1>8, <1>9 DEF Next

-----------------------------------------------------------------------------
(* Theorems.                                                               *)

Inv == TypeOK /\ SignedInAsThemselves /\ NamesInv

LEMMA Invariance == Spec => []Inv
<1>1. Init => Inv
  BY InitInv DEF Inv
<1>2. Inv /\ [Next]_vars => Inv'
  BY StepTyped, StepSigned, StepNames DEF Inv
<1> QED BY <1>1, <1>2, PTL DEF Spec

\* The table, the callbacks and the claims handed out are well typed, and
\* every callback is answered with its own identity's account, whatever
\* profiles, renames, registrations and failing statements come between.
THEOREM TypesAndSignIn == Spec => [](TypeOK /\ SignedInAsThemselves)
<1>1. Inv => TypeOK /\ SignedInAsThemselves
  BY DEF Inv
<1> QED BY <1>1, Invariance, PTL

\* The unique index on username, which FindOrCreateOAuthUser never mentions,
\* gives an identity no more accounts than it has had names at its provider,
\* whatever callbacks race and searches fail: one if it never changed it.
THEOREM NamesBoundAccounts == Spec => []OneAccountPerName
<1>1. Inv => OneAccountPerName
  <2> SUFFICES ASSUME Inv, NEW i \in Identities
               PROVE  Cardinality(AccountsOf(i)) <= Cardinality(called[i])
    BY DEF OneAccountPerName
  <2> DEFINE f == [u \in AccountsOf(i) |-> users[u].name]
  <2>1. \A u \in AccountsOf(i) :
            /\ u \in DOMAIN users /\ users[u].identity = i /\ i # Local
    BY AccountsAssumption DEF AccountsOf
  <2>2. f \in [AccountsOf(i) -> called[i]]
    BY <2>1 DEF Inv, NamesInv
  <2>3. \A u, v \in AccountsOf(i) : f[u] = f[v] => u = v
    BY <2>1 DEF Inv, NamesInv
  <2>4. f \in Injection(AccountsOf(i), called[i])
    BY <2>2, <2>3 DEF Injection, IsInjective
  <2>5. IsFiniteSet(called[i])
    BY DEF Inv, NamesInv
  <2> QED BY <2>4, <2>5, FS_Injection
<1> QED BY <1>1, Invariance, PTL

-----------------------------------------------------------------------------
(* SignIn implements Accounts.                                             *)

LEMMA StepImplements == [SignInNext]_allVars => [Next]_vars
<1> SUFFICES ASSUME [SignInNext]_allVars PROVE [Next]_vars
  OBVIOUS
<1> USE DEF vars
<1>2. ASSUME NEW c \in Callbacks, ExchangeCode(c) PROVE Fetch(c) \/ UNCHANGED vars
  BY <1>2 DEF ExchangeCode, Refuse, Fetch
<1>3. ASSUME NEW c \in Callbacks, GetUserInfo(c) PROVE Fetch(c)
  BY <1>3 DEF GetUserInfo, Refuse, Fetch
<1>4. ASSUME NEW c \in Callbacks, CreateTyped(c) PROVE Create(c)
  BY <1>4 DEF CreateTyped
<1>5. ASSUME NEW p \in Profiles, RegisterUntyped(p) PROVE Register(p)
  BY <1>5 DEF RegisterUntyped
<1>6. CASE UNCHANGED allVars
  BY <1>6 DEF allVars
<1> QED BY <1>2, <1>3, <1>4, <1>5, <1>6 DEF SignInNext, Next

\* A sign-in through any provider, from OAuthLogin to the answer, is a
\* behaviour of Accounts: whatever is proved of Accounts holds of it.
THEOREM SignInIsAccounts == SignInSpec => ImplementsAccounts
<1>1. SignInInit => Init
  BY DEF SignInInit
<1> QED BY <1>1, StepImplements, PTL DEF SignInSpec, Spec, ImplementsAccounts

LEMMA AccountsInvariance == SignInSpec => []Inv
BY SignInIsAccounts, Invariance, PTL DEF ImplementsAccounts

\* The two properties of Accounts, of the whole sign-in.
THEOREM EverySignInIsItsOwn == SignInSpec => []SignedInAsThemselves
BY SignInIsAccounts, TypesAndSignIn, PTL DEF ImplementsAccounts

THEOREM NamesBoundSignIns == SignInSpec => []OneAccountPerName
BY SignInIsAccounts, NamesBoundAccounts, PTL DEF ImplementsAccounts

-----------------------------------------------------------------------------
(* What a step does to the table, with its types.                          *)

LEMMA RowsAndTypes ==
    ASSUME Inv, [SignInNext]_allVars
    PROVE  /\ \/ types' = types /\ SameAccounts
              \/ \E c \in Callbacks :
                     /\ Inserted(Row(IdentityOf[c], info[c]))
                     /\ pc[c] = "create"
                     /\ types' = Append(types, AfterCut(state[c]))
                     /\ UNCHANGED <<state, token, outages>>
              \/ \E p \in Profiles :
                     /\ Inserted(Row(Local, p))
                     /\ types' = Append(types, <<>>)
                     /\ UNCHANGED <<state, token, outages, pc>>
<1>0. TypeOK /\ SignedInAsThemselves
  BY DEF Inv
<1>1. ASSUME UNCHANGED <<users, types>> PROVE types' = types /\ SameAccounts
  BY <1>1 DEF SameAccounts
<1>2. ASSUME NEW c \in Callbacks, ExchangeCode(c) \/ GetUserInfo(c)
      PROVE  UNCHANGED <<users, types>>
  BY <1>2 DEF ExchangeCode, GetUserInfo
<1>3. ASSUME NEW c \in Callbacks, Save(c), UNCHANGED types
      PROVE  types' = types /\ SameAccounts
  BY <1>0, <1>3, SaveKeeps
<1>4. ASSUME NEW c \in Callbacks, CreateTyped(c)
      PROVE  \/ UNCHANGED <<users, types>>
             \/ /\ Inserted(Row(IdentityOf[c], info[c]))
                /\ pc[c] = "create"
                /\ types' = Append(types, AfterCut(state[c]))
                /\ UNCHANGED <<state, token, outages>>
  <2> DEFINE new == Row(IdentityOf[c], info[c])
  <2>1. /\ new \in Rows /\ pc[c] = "create"
        /\ users' = users \/ users' = Append(users, new)
    BY <1>0, <1>4, Created DEF CreateTyped
  <2>2. users' = users \/ Inserted(new)
    BY <1>0, <2>1, Insertion
  <2>3. Inserted(new) => users' # users
    BY DEF Inserted
  <2> QED BY <1>4, <2>1, <2>2, <2>3 DEF CreateTyped, signInVars
<1>5. ASSUME NEW p \in Profiles, RegisterUntyped(p)
      PROVE  /\ Inserted(Row(Local, p)) /\ types' = Append(types, <<>>)
             /\ UNCHANGED <<state, token, outages, pc>>
  <2>1. Row(Local, p) \in Rows
    BY DEF Row, Rows, Profiles
  <2> QED BY <1>0, <1>5, <2>1, Insertion DEF RegisterUntyped, Register, signInVars
<1>6. CASE UNCHANGED allVars
  BY <1>1, <1>6 DEF allVars, vars
<1> QED BY <1>1, <1>2, <1>3, <1>4, <1>5, <1>6
        DEF SignInNext, Find, Login, RefreshToken, ChangeProfile

\* A token stands for one account as long as it is kept, whatever becomes of
\* the emails, for AuthMiddleware goes by the key of the row.
THEOREM TokensStay == SignInSpec => TokensKeepTheirAccount
<1>1. ASSUME Inv, [SignInNext]_allVars, NEW t \in tokens
      PROVE  /\ Authenticate(t) \in DOMAIN users
             /\ Authenticate(t)' = Authenticate(t)
             /\ users'[Authenticate(t)].identity = users[Authenticate(t)].identity
  <2>1. t.user \in DOMAIN users
    BY <1>1 DEF Inv, TypeOK
  <2>2. /\ \A u \in DOMAIN users : u \in DOMAIN users'
        /\ \A u \in DOMAIN users : users'[u].identity = users[u].identity
    BY <1>1, RowsAndTypes DEF SameAccounts, Inserted
  <2> QED BY <2>1, <2>2 DEF Authenticate
<1>2. Inv /\ [SignInNext]_allVars =>
        [\A t \in tokens :
           /\ Authenticate(t) \in DOMAIN users
           /\ Authenticate(t)' = Authenticate(t)
           /\ users'[Authenticate(t)].identity = users[Authenticate(t)].identity]_allVars
  BY <1>1
<1> QED BY <1>2, AccountsInvariance, PTL DEF SignInSpec, TokensKeepTheirAccount

-----------------------------------------------------------------------------
(* The combined state.                                                     *)

LEMMA CombinedTyped ==
    ASSUME NEW c \in Callbacks
    PROVE  LET s == Combined(c)
               n == Len(StateOf[c])
           IN  /\ s \in Seq(STRING) /\ s # <<>>
               /\ n \in Nat /\ Len(AskedOf[c]) \in Nat
               /\ Len(s) = n + 1 + Len(AskedOf[c])
               /\ \A k \in 1..n : s[k] = StateOf[c][k]
               /\ s[n + 1] = Sep
               /\ \A k \in 1..Len(AskedOf[c]) : s[n + 1 + k] = AskedOf[c][k]
<1> DEFINE a == StateOf[c]
           b == AskedOf[c]
           m == a \o <<Sep>>
<1>1. a \in Seq(STRING) /\ b \in Seq(STRING) /\ <<Sep>> \in Seq(STRING)
  BY SignInAssumption
<1>2. Len(a) \in Nat /\ Len(b) \in Nat /\ Len(<<Sep>>) = 1 /\ <<Sep>>[1] = Sep
  BY <1>1, LenProperties
<1> HIDE DEF a, b
<1>3. /\ m \in Seq(STRING) /\ Len(m) = Len(a) + 1
      /\ \A k \in 1..Len(a) : m[k] = a[k]
      /\ m[Len(a) + 1] = Sep
  <2>1. /\ m \in Seq(STRING) /\ Len(m) = Len(a) + Len(<<Sep>>)
        /\ \A k \in 1..(Len(a) + Len(<<Sep>>)) :
               m[k] = IF k <= Len(a) THEN a[k] ELSE <<Sep>>[k - Len(a)]
    BY <1>1, ConcatProperties
  <2>2. m[Len(a) + 1] = <<Sep>>[(Len(a) + 1) - Len(a)]
    BY <1>2, <2>1
  <2> QED BY <1>2, <2>1, <2>2
<1> HIDE DEF m
<1>4. /\ m \o b \in Seq(STRING) /\ Len(m \o b) = Len(m) + Len(b)
      /\ \A k \in 1..(Len(m) + Len(b)) :
             (m \o b)[k] = IF k <= Len(m) THEN m[k] ELSE b[k - Len(m)]
  BY <1>1, <1>3, ConcatProperties
<1>5. \A k \in 1..Len(b) : (m \o b)[Len(a) + 1 + k] = b[k]
  BY <1>2, <1>3, <1>4
<1>6. m \o b # <<>>
  BY <1>2, <1>3, <1>4, EmptySeq
<1>7. Combined(c) = m \o b
  BY DEF Combined, a, b, m
<1>8. \A k \in 1..Len(a) : (m \o b)[k] = a[k]
  BY <1>2, <1>3, <1>4
<1>9. (m \o b)[Len(a) + 1] = Sep
  BY <1>2, <1>3, <1>4
<1>10. Len(m \o b) = Len(a) + 1 + Len(b)
  BY <1>2, <1>3, <1>4
<1> HIDE DEF m
<1> QED BY <1>2, <1>4, <1>5, <1>6, <1>7, <1>8, <1>9, <1>10 DEF a, b

\* A set of positions has a first one.
LEMMA FirstOf ==
    ASSUME NEW P \in SUBSET Nat, NEW p \in P
    PROVE  \E k \in P : \A j \in P : k <= j
<1> DEFINE lt == OpToRel(<, Nat)
<1>1. P \subseteq Nat /\ P # {}
  OBVIOUS
<1>2. IsWellFoundedOn(lt, Nat)
  BY NatLessThanWellFounded
<1>3. \A x, y \in Nat : y < x => <<y, x>> \in lt
  BY DEF OpToRel
<1> HIDE DEF lt
<1>4. PICK x \in P : \A y \in P : <<y, x>> \notin lt
  BY <1>1, <1>2, WFMin, Zenon
<1>5. \A y \in P : x <= y
  <2> TAKE y \in P
  <2>1. x \in Nat /\ y \in Nat
    BY <1>1
  <2>2. ~(y < x)
    BY <1>3, <1>4, <2>1
  <2> QED BY <2>1, <2>2
<1> QED BY <1>5

\* strings.Cut returns a part of the string.
LEMMA CutTyped ==
    ASSUME NEW s \in Seq(STRING) PROVE AfterCut(s) \in Seq(STRING)
<1> DEFINE seps == {k \in DOMAIN s : s[k] = Sep}
           first == CHOOSE k \in seps : \A j \in seps : k <= j
<1>1. Len(s) \in Nat /\ DOMAIN s = 1..Len(s)
  BY LenProperties
<1>2. CASE seps = {}
  BY <1>2, EmptySeq DEF AfterCut
<1>3. CASE seps # {}
  <2>1. \E k \in seps : \A j \in seps : k <= j
    <3>1. PICK k \in seps : TRUE
      BY <1>3
    <3>2. seps \in SUBSET Nat
      BY <1>1
    <3> HIDE DEF seps
    <3> QED BY <3>1, <3>2, FirstOf
  <2>2. first \in seps
    BY <2>1
  <2>3. first + 1 \in Int /\ first \in Nat
    BY <1>1, <2>2
  <2> HIDE DEF first
  <2>4. \A i \in (first + 1)..Len(s) : s[i] \in STRING
    BY <1>1, <2>3, ElementOfSeq
  <2>5. SubSeq(s, first + 1, Len(s)) \in Seq(STRING)
    BY <1>1, <2>3, <2>4, SubSeqProperties
  <2> QED BY <1>3, <2>5 DEF AfterCut, first
<1> QED BY <1>2, <1>3

\* A state without a separator keeps the type apart: OAuthCallback gets back
\* what OAuthLogin was asked for.
LEMMA CutBack ==
    ASSUME NEW c \in Callbacks, \A k \in DOMAIN StateOf[c] : StateOf[c][k] # Sep
    PROVE  AfterCut(Combined(c)) = AskedOf[c]
<1> DEFINE s == Combined(c)
           n == Len(StateOf[c])
           b == AskedOf[c]
           seps == {k \in DOMAIN s : s[k] = Sep}
           first == CHOOSE k \in seps : \A j \in seps : k <= j
<1>1. /\ s \in Seq(STRING) /\ n \in Nat /\ Len(b) \in Nat
      /\ Len(s) = n + 1 + Len(b)
      /\ \A k \in 1..n : s[k] = StateOf[c][k]
      /\ s[n + 1] = Sep
      /\ \A k \in 1..Len(b) : s[n + 1 + k] = b[k]
  BY CombinedTyped
<1>2. /\ b \in Seq(STRING) /\ DOMAIN b = 1..Len(b)
      /\ \A k \in 1..n : StateOf[c][k] # Sep
  BY SignInAssumption, LenProperties
<1>3. DOMAIN s = 1..Len(s)
  BY <1>1, LenProperties
<1> HIDE DEF s, n, b
<1>4. n + 1 \in seps /\ \A j \in seps : n + 1 <= j
  <2>1. n + 1 \in seps
    BY <1>1, <1>3
  <2>2. ASSUME NEW j \in seps, j < n + 1 PROVE FALSE
    <3>1. j \in 1..n /\ s[j] = Sep
      BY <1>1, <1>3, <2>2
    <3> QED BY <1>1, <1>2, <3>1
  <2>3. \A j \in seps : j \in Nat
    BY <1>1, <1>3
  <2> QED BY <1>1, <2>1, <2>2, <2>3
<1>5. first = n + 1
  BY <1>1, <1>3, <1>4
<1>6. AfterCut(s) = SubSeq(s, n + 1 + 1, Len(s))
  BY <1>4, <1>5 DEF AfterCut
<1>7. \A i \in (n + 1 + 1)..Len(s) : s[i] \in STRING
  BY <1>1, <1>3, ElementOfSeq
<1>8. /\ SubSeq(s, n + 1 + 1, Len(s)) \in Seq(STRING)
      /\ Len(SubSeq(s, n + 1 + 1, Len(s))) = Len(b)
      /\ \A i \in 1..Len(b) : SubSeq(s, n + 1 + 1, Len(s))[i] = b[i]
  <2>1. /\ SubSeq(s, n + 1 + 1, Len(s)) \in Seq(STRING)
        /\ Len(SubSeq(s, n + 1 + 1, Len(s))) =
               IF n + 1 + 1 <= Len(s) THEN Len(s) - (n + 1 + 1) + 1 ELSE 0
        /\ \A i \in 1..(Len(s) - (n + 1 + 1) + 1) :
               SubSeq(s, n + 1 + 1, Len(s))[i] = s[n + 1 + 1 + i - 1]
    BY <1>1, <1>7, SubSeqProperties
  <2> QED BY <1>1, <2>1
<1>9. SubSeq(s, n + 1 + 1, Len(s)) = b
  BY <1>2, <1>8, SeqEqual
<1> QED BY <1>6, <1>9 DEF s, b

-----------------------------------------------------------------------------
(* The types of SignIn and those of the accounts.                          *)

\* What the steps leave of each call: a state that has come stays, and only a
\* call that has exchanged its code looks for its account.
LEMMA CallsMove ==
    ASSUME Inv, SignInTypeOK, TypeInv, [SignInNext]_allVars
    PROVE  /\ state' \in [Callbacks -> Seq(STRING)]
           /\ token' \in [Callbacks -> Tokens]
           /\ outages' \in 0..MaxOutages
           /\ \A c \in Callbacks :
                  /\ token[c] # "none" => token'[c] # "none" /\ state'[c] = state[c]
                  /\ pc'[c] \notin {"fetch", "failed"} => token'[c] # "none"
<1> DEFINE Goal ==
             /\ state' \in [Callbacks -> Seq(STRING)]
             /\ token' \in [Callbacks -> Tokens]
             /\ outages' \in 0..MaxOutages
             /\ \A c \in Callbacks :
                    /\ token[c] # "none" => token'[c] # "none" /\ state'[c] = state[c]
                    /\ pc'[c] \notin {"fetch", "failed"} => token'[c] # "none"
<1>0. /\ pc \in [Callbacks -> Points] /\ row \in [Callbacks -> Nat]
      /\ state \in [Callbacks -> Seq(STRING)]
      /\ token \in [Callbacks -> Tokens]
      /\ outages \in 0..MaxOutages /\ outages \in Nat /\ MaxOutages \in Nat
  BY SignInAssumption DEF SignInTypeOK, TypeOK
<1>a. ASSUME UNCHANGED <<state, token>>, outages' \in 0..MaxOutages,
             \A d \in Callbacks : pc'[d] \in {pc[d], "failed"} \/ token[d] # "none"
      PROVE  Goal
  BY <1>0, <1>a DEF TypeInv
<1>2. ASSUME NEW c \in Callbacks, ExchangeCode(c) PROVE Goal
  <2>1. outages' \in 0..MaxOutages
    BY <1>0, <1>2 DEF ExchangeCode, Outage
  <2>2. \A d \in Callbacks : pc'[d] \in {pc[d], "failed"}
    BY <1>0, <1>2 DEF ExchangeCode, Refuse, Goto
  <2>3. CASE UNCHANGED <<state, token>>
    BY <1>a, <2>1, <2>2, <2>3
  <2>4. ASSUME NEW s \in OAuthLogin(c) \cup OtherStates, NEW t \in Marks(Provider(c)),
               state' = [state EXCEPT ![c] = s], token' = [token EXCEPT ![c] = t]
        PROVE  Goal
    <3>1. s \in Seq(STRING) /\ t \in Tokens /\ t # "none"
      BY CombinedTyped, SignInAssumption DEF OAuthLogin, Marks, Tokens
    <3>2. token[c] = "none"
      BY <1>2 DEF ExchangeCode
    <3>3. /\ state' \in [Callbacks -> Seq(STRING)] /\ token' \in [Callbacks -> Tokens]
          /\ token'[c] # "none"
          /\ \A d \in Callbacks : d # c => token'[d] = token[d] /\ state'[d] = state[d]
      BY <1>0, <2>4, <3>1
    <3> QED BY <2>1, <2>2, <3>2, <3>3 DEF TypeInv
  <2> QED BY <1>2, <2>3, <2>4 DEF ExchangeCode
<1>3. ASSUME NEW c \in Callbacks, GetUserInfo(c) PROVE Goal
  <2>1. \A d \in Callbacks : pc'[d] \in {pc[d], "failed"} \/ token[d] # "none"
    BY <1>0, <1>3 DEF GetUserInfo, Refuse, Goto
  <2>2. outages' \in 0..MaxOutages /\ UNCHANGED <<state, token>>
    BY <1>0, <1>3 DEF GetUserInfo, Outage
  <2> QED BY <1>a, <2>1, <2>2
<1>4. ASSUME UNCHANGED <<state, token, outages>>,
             \A c \in Callbacks : pc'[c] = pc[c] \/ pc[c] \notin {"fetch", "failed"}
      PROVE  Goal
  BY <1>0, <1>4 DEF TypeInv
<1>5. ASSUME NEW c \in Callbacks, Find(c) \/ Save(c) \/ CreateTyped(c),
             UNCHANGED signInVars
      PROVE  Goal
  <2>1. pc[c] \notin {"fetch", "failed"}
    BY <1>5 DEF Find, Save, CreateTyped, Create
  <2>2. \A d \in Callbacks : d # c => pc'[d] = pc[d]
    BY <1>0, <1>5, Zenon DEF Find, Save, CreateTyped, Create, Goto
  <2> QED BY <1>4, <1>5, <2>1, <2>2 DEF signInVars
<1>6. ASSUME \/ \E p \in Profiles : RegisterUntyped(p)
             \/ \E u \in DOMAIN users : Login(u) /\ UNCHANGED signInVars
             \/ \E t \in tokens : RefreshToken(t) /\ UNCHANGED signInVars
             \/ \E i \in Identities : ChangeProfile(i) /\ UNCHANGED signInVars
             \/ UNCHANGED allVars
      PROVE  Goal
  BY <1>4, <1>6 DEF RegisterUntyped, Register, Login, RefreshToken,
                    ChangeProfile, signInVars, allVars, vars
<1>7. Goal
  BY <1>2, <1>3, <1>5, <1>6 DEF SignInNext, CreateTyped
<1> QED BY <1>7

\* A new account has its type appended.
LEMMA TypeAppended ==
    ASSUME Inv, types \in [DOMAIN users -> Seq(STRING)], NEW new \in Rows,
           Inserted(new), NEW t \in Seq(STRING), types' = Append(types, t)
    PROVE  /\ types' \in [DOMAIN users' -> Seq(STRING)]
           /\ \A u \in DOMAIN users : types'[u] = types[u]
           /\ types'[Len(users) + 1] = t
<1>1. Len(users) \in Nat /\ DOMAIN users = 1..Len(users)
  BY Table DEF Inv
<1>2. types \in Seq(Seq(STRING)) /\ Len(types) = Len(users)
  <2>1. types \in [1..Len(users) -> Seq(STRING)]
    BY <1>1
  <2> QED BY <1>1, <2>1
<1>3. /\ types' \in Seq(Seq(STRING)) /\ Len(types') = Len(users) + 1
      /\ \A i \in 1..Len(users) : types'[i] = types[i]
      /\ types'[Len(users) + 1] = t
  BY <1>2, AppendProperties
<1>4. types' \in [1..(Len(users) + 1) -> Seq(STRING)]
  BY <1>3, LenProperties
<1>5. 1..(Len(users) + 1) = DOMAIN users'
  BY <1>1 DEF Inserted
<1> QED BY <1>1, <1>3, <1>4, <1>5

LEMMA StepTypes ==
    Inv /\ SignInTypeOK /\ TypeInv /\ [SignInNext]_allVars
        => (types' \in [DOMAIN users' -> Seq(STRING)]) /\ TypeInv'
<1> SUFFICES ASSUME Inv, SignInTypeOK, TypeInv, [SignInNext]_allVars
             PROVE  (types' \in [DOMAIN users' -> Seq(STRING)]) /\ TypeInv'
  OBVIOUS
<1> DEFINE Asked(u, t) == \E c \in Callbacks :
               IdentityOf[c] = u.identity /\ token'[c] # "none"
               /\ t = AfterCut(state'[c])
<1>1. types \in [DOMAIN users -> Seq(STRING)]
  BY DEF SignInTypeOK
<1>2. \A u \in DOMAIN users : users[u].identity # Local => Asked(users[u], types[u])
  BY CallsMove DEF TypeInv
<1>3. SUFFICES /\ types' \in [DOMAIN users' -> Seq(STRING)]
               /\ \A u \in DOMAIN users' : users'[u].identity # Local =>
                      Asked(users'[u], types'[u])
  BY CallsMove, Zenon DEF TypeInv
<1>4. CASE types' = types /\ SameAccounts
  BY <1>1, <1>2, <1>4 DEF SameAccounts
<1>5. ASSUME NEW new \in Rows, Inserted(new), NEW t \in Seq(STRING),
             types' = Append(types, t), new.identity # Local => Asked(new, t)
      PROVE  /\ types' \in [DOMAIN users' -> Seq(STRING)]
             /\ \A u \in DOMAIN users' : users'[u].identity # Local =>
                    Asked(users'[u], types'[u])
  <2>1. /\ types' \in [DOMAIN users' -> Seq(STRING)]
        /\ \A u \in DOMAIN users : types'[u] = types[u]
        /\ types'[Len(users) + 1] = t
    BY <1>1, <1>5, TypeAppended
  <2> HIDE DEF Asked
  <2> QED BY <1>2, <1>5, <2>1 DEF Inserted
<1>6. ASSUME NEW c \in Callbacks, Inserted(Row(IdentityOf[c], info[c])),
             pc[c] = "create", types' = Append(types, AfterCut(state[c])),
             UNCHANGED <<state, token, outages>>
      PROVE  /\ types' \in [DOMAIN users' -> Seq(STRING)]
             /\ \A u \in DOMAIN users' : users'[u].identity # Local =>
                    Asked(users'[u], types'[u])
  <2> DEFINE new == Row(IdentityOf[c], info[c])
  <2>1. new \in Rows /\ new.identity = IdentityOf[c]
    BY AccountsAssumption DEF Row, Rows, Inv, TypeOK, Profiles
  <2>2. token'[c] # "none" /\ state'[c] = state[c] /\ state[c] \in Seq(STRING)
    BY <1>6 DEF TypeInv, SignInTypeOK
  <2>3. AfterCut(state[c]) \in Seq(STRING)
    BY <2>2, CutTyped
  <2>4. Asked(new, AfterCut(state[c]))
    BY <2>1, <2>2
  <2> HIDE DEF new, Asked
  <2> QED BY <1>5, <1>6, <2>1, <2>3, <2>4 DEF new
<1>7. ASSUME NEW p \in Profiles, Inserted(Row(Local, p)), types' = Append(types, <<>>)
      PROVE  /\ types' \in [DOMAIN users' -> Seq(STRING)]
             /\ \A u \in DOMAIN users' : users'[u].identity # Local =>
                    Asked(users'[u], types'[u])
  <2>1. Row(Local, p) \in Rows /\ Row(Local, p).identity = Local
    BY DEF Row, Rows, Profiles
  <2>2. <<>> \in Seq(STRING)
    BY EmptySeq
  <2> HIDE DEF Asked
  <2> QED BY <1>5, <1>7, <2>1, <2>2
<1> HIDE DEF Asked
<1> QED BY <1>4, <1>6, <1>7, RowsAndTypes

SignInInv == Inv /\ SignInTypeOK /\ TypeInv

LEMMA SignInInvariance == SignInSpec => []SignInInv
<1>1. SignInInit => Inv /\ SignInTypeOK /\ TypeInv
  <2> SUFFICES ASSUME SignInInit PROVE Inv /\ SignInTypeOK /\ TypeInv
    OBVIOUS
  <2>1. Inv
    BY InitInv DEF SignInInit, Inv
  <2>2. <<>> \in Seq(STRING) /\ DOMAIN users = {} /\ types = <<>>
    BY EmptySeq DEF SignInInit, Init
  <2>3. types \in [DOMAIN users -> Seq(STRING)]
    BY <2>2
  <2>4. SignInTypeOK
    BY <2>1, <2>2, <2>3, SignInAssumption
       DEF SignInInit, SignInTypeOK, Inv, Tokens
  <2>5. TypeInv
    BY <2>2 DEF SignInInit, Init, TypeInv
  <2> QED BY <2>1, <2>4, <2>5
<1>2. SignInInv /\ [SignInNext]_allVars => SignInInv'
  <2> SUFFICES ASSUME Inv, SignInTypeOK, TypeInv, [SignInNext]_allVars
               PROVE  SignInInv'
    BY DEF SignInInv
  <2>1. Inv'
    BY StepImplements, StepTyped, StepSigned, StepNames DEF Inv
  <2>2. (types' \in [DOMAIN users' -> Seq(STRING)]) /\ TypeInv'
    BY StepTypes
  <2>3. SignInTypeOK'
    BY <2>1, <2>2, CallsMove DEF SignInTypeOK, Inv
  <2> QED BY <2>1, <2>2, <2>3 DEF SignInInv
<1>3. SignInInit => SignInInv
  BY <1>1 DEF SignInInv
<1> QED BY <1>2, <1>3, PTL DEF SignInSpec

\* Each account has one type, a string, and each call its state and token.
THEOREM SignInTyped == SignInSpec => []SignInTypeOK
<1>1. SignInInv => SignInTypeOK
  BY DEF SignInInv
<1> QED BY <1>1, SignInInvariance, PTL

\* An account's type is one that a callback of its own identity came with, and
\* the one asked for if that callback came with what OAuthLogin composed, as
\* long as the frontend's states have no separator in them.
THEOREM TypesAreAsked == SignInSpec => []TypeAsAsked
<1>1. SignInInv => TypeAsAsked
  BY CutBack DEF SignInInv, TypeInv, TypeAsAsked
<1> QED BY <1>1, SignInInvariance, PTL

-----------------------------------------------------------------------------
(* Refusals.                                                               *)

\* The steps of SignIn on the variables of Accounts.
LEMMA TokensAccumulate ==
    ASSUME [SignInNext]_allVars PROVE tokens \subseteq tokens'
BY Zenon DEF SignInNext, ExchangeCode, GetUserInfo, CreateTyped,
             RegisterUntyped, Find, Save, Create, Register, Login, RefreshToken,
             ChangeProfile, Grant, allVars, vars

LEMMA GrantGives ==
    ASSUME NEW user, NEW email, Grant(user, email)
    PROVE  \E t \in tokens' : t.email = email
<1> DEFINE t == [user |-> user, email |-> email]
<1>1. t \in tokens'
  BY DEF Grant
<1>2. t.email = email
  OBVIOUS
<1> HIDE DEF t
<1> QED BY <1>1, <1>2

\* Whoever is signed in gets a token with the email that the account then has.
LEMMA EmailsGranted ==
    ASSUME SignInInv, ReasonInv, [SignInNext]_allVars
    PROVE  \A u \in DOMAIN users' : \E t \in tokens' : t.email = users'[u].email
<1> DEFINE Goal ==
        \A u \in DOMAIN users' : \E t \in tokens' : t.email = users'[u].email
<1>0. /\ TypeOK /\ SignedInAsThemselves
      /\ tokens \subseteq tokens'
  BY TokensAccumulate DEF SignInInv, Inv
<1>1. CASE UNCHANGED users
  BY <1>0, <1>1 DEF ReasonInv
<1>2. ASSUME NEW new \in Rows, Inserted(new), NEW key, Grant(key, new.email)
      PROVE  Goal
  <2>1. \E t \in tokens' : t.email = new.email
    BY <1>2, GrantGives
  <2>2. \A u \in DOMAIN users' : u \in DOMAIN users \/ u = Len(users) + 1
    BY <1>2 DEF Inserted
  <2> QED BY <1>0, <1>2, <2>1, <2>2 DEF Inserted, ReasonInv
<1>3. ASSUME NEW c \in Callbacks, CreateTyped(c), ~UNCHANGED users PROVE Goal
  <2> DEFINE new == Row(IdentityOf[c], info[c])
  <2>1. /\ new \in Rows /\ new.email = info[c].email
        /\ users' = Append(users, new) /\ Grant(Len(users) + 1, new.email)
    BY <1>0, <1>3, Created DEF CreateTyped, Row
  <2> HIDE DEF new
  <2>2. Inserted(new)
    BY <1>0, <2>1, Insertion
  <2> QED BY <1>2, <2>1, <2>2
<1>4. ASSUME NEW p \in Profiles, RegisterUntyped(p) PROVE Goal
  <2> DEFINE new == Row(Local, p)
  <2>1. new \in Rows /\ new.email = p.email
    BY DEF Row, Rows, Profiles
  <2>2. users' = Append(users, new) /\ Grant(Len(users) + 1, new.email)
    BY <1>4, <2>1 DEF RegisterUntyped, Register
  <2> HIDE DEF new
  <2>3. Inserted(new)
    BY <1>0, <2>1, <2>2, Insertion
  <2> QED BY <1>2, <2>1, <2>2, <2>3
<1>5. ASSUME NEW c \in Callbacks, Save(c), ~UNCHANGED users PROVE Goal
  <2>1. /\ users' = [users EXCEPT ![row[c]].email = info[c].email]
        /\ Grant(row[c], info[c].email)
    BY <1>5, Zenon DEF Save
  <2>2. /\ row[c] \in DOMAIN users /\ users[row[c]] \in Rows
        /\ \E t \in tokens' : t.email = info[c].email
    BY <1>0, <1>5, <2>1, SaveKeeps, Table, GrantGives
  <2>3. users' = [u \in DOMAIN users |->
                      IF u = row[c] THEN [users[u] EXCEPT !.email = info[c].email]
                      ELSE users[u]]
    BY <2>1, <2>2
  <2>4. ASSUME NEW u \in DOMAIN users'
        PROVE  users'[u].email \in {info[c].email, users[u].email} /\ u \in DOMAIN users
    BY <2>2, <2>3, <2>4 DEF Rows
  <2> QED BY <1>0, <2>2, <2>4 DEF ReasonInv
<1> QED BY <1>1, <1>3, <1>4, <1>5
        DEF SignInNext, ExchangeCode, GetUserInfo, Find, Login,
            RefreshToken, ChangeProfile, allVars, vars

LEMMA ReasonsKept ==
    ASSUME SignInInv, ReasonInv, [SignInNext]_allVars
    PROVE  ReasonInv'
<1>0. /\ profile \in [Identities -> Profiles] /\ token \in [Callbacks -> Tokens]
  BY DEF SignInInv, SignInTypeOK, TypeOK
<1>1. \A i \in Identities : profile'[i].email \in EmailsOf[i]
  <2>1. ASSUME NEW i \in Identities, ChangeProfile(i)
        PROVE  \A j \in Identities : profile'[j].email \in EmailsOf[j]
    BY <1>0, <2>1 DEF ChangeProfile, ReasonInv
  <2>2. UNCHANGED profile \/ \E i \in Identities : ChangeProfile(i)
    BY DEF SignInNext, ExchangeCode, GetUserInfo, CreateTyped,
           RegisterUntyped, Find, Save, Create, Register, Login, RefreshToken,
           allVars, vars
  <2> QED BY <2>1, <2>2 DEF ReasonInv
<1>2. \A c \in Callbacks : token'[c] \in {"none"} \cup Marks(Provider(c))
  <2>1. ASSUME NEW c \in Callbacks, ExchangeCode(c)
        PROVE  \A d \in Callbacks : token'[d] \in {"none"} \cup Marks(Provider(d))
    BY <1>0, <2>1 DEF ExchangeCode, ReasonInv
  <2>2. UNCHANGED token \/ \E c \in Callbacks : ExchangeCode(c)
    BY DEF SignInNext, GetUserInfo, CreateTyped,
           RegisterUntyped, signInVars, allVars
  <2> QED BY <2>1, <2>2 DEF ReasonInv
<1> QED BY <1>1, <1>2, EmailsGranted DEF ReasonInv, Provider

\* An answer of a provider that works, and gives the server what it asks for,
\* can be read.
LEMMA AnswersReadable ==
    ASSUME NEW c \in Callbacks, NEW email, NEW t \in Marks(Provider(c)),
           Provider(c) \in {"google", "github", "facebook", "wechat"},
           Provider(c) \in {"google", "facebook"} => email # NoEmail
    PROVE  Readable(Provider(c), t, email)
BY DEF Readable, AnswerReadable, WeChatReadable, WeChatReader, Marks

\* Why c was turned away, if it was.
Reason(c) == (\E t \in tokens : t.email = info[c].email) \/ NameTaken(info[c].name)

\* Networks and databases that work, and a provider that gives what it should.
InOrder(c) ==
    /\ outages = 0 /\ failures = 0
    /\ Provider(c) \in Configured \cap {"google", "github", "facebook", "wechat"}
    /\ Provider(c) \in {"google", "facebook"} => NoEmail \notin EmailsOf[IdentityOf[c]]

\* Each step that turns a call away has its reason.
LEMMA Refusals ==
    ASSUME SignInInv, ReasonInv, [SignInNext]_allVars, NEW c \in Callbacks,
           pc[c] # "failed", pc'[c] = "failed", InOrder(c)'
    PROVE  Reason(c)
<1>0. /\ TypeOK /\ pc \in [Callbacks -> Points]
      /\ token \in [Callbacks -> Tokens]
      /\ outages \in Nat /\ failures \in Nat
  BY SignInAssumption, AccountsAssumption DEF SignInInv, SignInTypeOK, TypeOK
<1>a. \A d \in Callbacks : \A point, key : Goto(d, point, key) =>
          pc'[d] = point /\ \A e \in Callbacks : e # d => pc'[e] = pc[e]
  BY <1>0 DEF Goto
<1>b. outages' = 0 /\ failures' = 0
  BY DEF InOrder
<1>2. ASSUME NEW d \in Callbacks, ExchangeCode(d) PROVE FALSE
  <2>1. \/ UNCHANGED pc
        \/ Goto(d, "failed", 0) /\ Provider(d) \notin Configured
        \/ Outage
    BY <1>2 DEF ExchangeCode, Refuse
  <2>2. d = c /\ Provider(d) \notin Configured
    BY <1>0, <1>a, <1>b, <2>1 DEF Outage
  <2> QED BY <2>2 DEF InOrder, Provider
<1>3. ASSUME NEW d \in Callbacks, GetUserInfo(d) PROVE FALSE
  <2> DEFINE email == profile[IdentityOf[d]].email
  <2>1. /\ \/ Goto(d, "find", 0)
           \/ ~Readable(Provider(d), token[d], email) /\ Goto(d, "failed", 0)
           \/ Outage
        /\ token[d] # "none"
    BY <1>3 DEF GetUserInfo, Refuse
  <2>2. ~Outage
    BY <1>0, <1>b DEF Outage
  <2>3. d = c /\ ~Readable(Provider(d), token[d], email)
    BY <1>a, <2>1, <2>2
  <2>4. token[d] \in Marks(Provider(d))
    BY <2>1 DEF ReasonInv
  <2>5. Provider(d) \in {"google", "facebook"} => email # NoEmail
    BY <2>3, AccountsAssumption DEF ReasonInv, InOrder, Provider
  <2>6. Provider(d) \in {"google", "github", "facebook", "wechat"}
    BY <2>3 DEF InOrder, Provider
  <2> QED BY <2>3, <2>4, <2>5, <2>6, AnswersReadable
<1>4. ASSUME NEW d \in Callbacks, Find(d) \/ Save(d) PROVE FALSE
  <2>1. \E point \in {"save", "create", "done"} : \E key : Goto(d, point, key)
    BY <1>4, Zenon DEF Find, Save
  <2> QED BY <1>a, <2>1
<1>5. ASSUME NEW d \in Callbacks, CreateTyped(d) PROVE Reason(c)
  <2>1. \/ \E key : Goto(d, "done", key)
        \/ (EmailTaken(info[d].email) \/ NameTaken(info[d].name)) /\ Goto(d, "failed", 0)
        \/ Failure
    BY <1>5, Zenon DEF CreateTyped, Create
  <2>2. ~Failure
    BY <1>0, <1>b DEF Failure
  <2>3. d = c /\ (EmailTaken(info[d].email) \/ NameTaken(info[d].name))
    BY <1>a, <2>1, <2>2
  <2> QED BY <2>3 DEF EmailTaken, ReasonInv, Reason
<1>6. CASE UNCHANGED pc
  BY <1>6
<1> QED BY <1>2, <1>3, <1>4, <1>5, <1>6
        DEF SignInNext, RegisterUntyped, Register, Login, RefreshToken,
            ChangeProfile, allVars, vars

\* A refusal is for good, and so is its reason.
LEMMA ReasonsStay ==
    ASSUME SignInInv, ReasonInv, [SignInNext]_allVars, NEW c \in Callbacks
    PROVE  /\ pc'[c] = "failed" => info'[c] = info[c]
           /\ info'[c] = info[c] /\ Reason(c) => Reason(c)'
           /\ InOrder(c)' => InOrder(c)
<1>0. /\ Inv /\ TypeOK
      /\ pc \in [Callbacks -> Points] /\ info \in [Callbacks -> Profiles]
      /\ outages \in Nat /\ failures \in Nat
  BY SignInAssumption, AccountsAssumption DEF SignInInv, Inv, SignInTypeOK, TypeOK
<1>1. pc'[c] = "failed" => info'[c] = info[c]
  <2>1. ASSUME NEW d \in Callbacks, GetUserInfo(d)
        PROVE  pc'[c] = "failed" => info'[c] = info[c]
    <3>1. \/ Goto(d, "find", 0) /\ info' = [info EXCEPT ![d] = profile[IdentityOf[d]]]
          \/ UNCHANGED info
      BY <2>1, Zenon DEF GetUserInfo, Refuse
    <3> QED BY <1>0, <3>1 DEF Goto
  <2>2. UNCHANGED info \/ \E d \in Callbacks : GetUserInfo(d)
    BY Zenon DEF SignInNext, ExchangeCode, Refuse, CreateTyped,
           RegisterUntyped, Find, Save, Create, Register, Login, RefreshToken,
           ChangeProfile, allVars, vars
  <2> QED BY <2>1, <2>2
<1>2. info'[c] = info[c] /\ Reason(c) => Reason(c)'
  <2>1. \A u \in DOMAIN users : u \in DOMAIN users' /\ users'[u].name = users[u].name
    BY <1>0, RowsAndTypes DEF SameAccounts, Inserted
  <2> QED BY <2>1, TokensAccumulate DEF Reason, NameTaken
<1>3. InOrder(c)' => InOrder(c)
  <2>1. UNCHANGED outages \/ Outage
    BY Zenon DEF SignInNext, ExchangeCode, GetUserInfo, CreateTyped,
           RegisterUntyped, signInVars, allVars
  <2>2. UNCHANGED failures \/ Failure
    BY Zenon DEF SignInNext, ExchangeCode, GetUserInfo, CreateTyped,
           RegisterUntyped, Find, Save, Create, Register, Login, RefreshToken,
           ChangeProfile, allVars, vars
  <2>3. (outages' = 0 => outages = 0) /\ (failures' = 0 => failures = 0)
    BY <1>0, <2>1, <2>2 DEF Outage, Failure
  <2> QED BY <2>3 DEF InOrder, Provider
<1> QED BY <1>1, <1>2, <1>3

\* While the network and the database work, whoever uses Google, GitHub,
\* Facebook or the personal WeChat, if it is configured, and gives Google or
\* Facebook an email, is turned away only for an email or a name that is, or
\* was, another's, whatever other sign-ins, registrations and changes come
\* between.
THEOREM RefusalsHaveReasons == SignInSpec => []RefusedForAReason
<1> DEFINE Reasoned == \A c \in Callbacks :
                           pc[c] = "failed" /\ InOrder(c) => Reason(c)
<1>1. SignInInit => ReasonInv /\ Reasoned
  <2> SUFFICES ASSUME SignInInit PROVE ReasonInv /\ Reasoned
    OBVIOUS
  <2>1. users = <<>> /\ DOMAIN users = {}
    BY EmptySeq DEF SignInInit, Init
  <2> QED BY <2>1, SignInAssumption, AccountsAssumption
          DEF SignInInit, Init, ReasonInv
<1>2. SignInInv /\ ReasonInv /\ Reasoned /\ [SignInNext]_allVars
          => ReasonInv' /\ Reasoned'
  <2> SUFFICES ASSUME SignInInv, ReasonInv, Reasoned, [SignInNext]_allVars
               PROVE  ReasonInv' /\ Reasoned'
    OBVIOUS
  <2>1. ASSUME NEW c \in Callbacks, pc'[c] = "failed", InOrder(c)'
        PROVE  Reason(c)'
    <3>1. Reason(c) /\ info'[c] = info[c] => Reason(c)'
      BY ReasonsStay
    <3>2. info'[c] = info[c] /\ InOrder(c)
      BY <2>1, ReasonsStay
    <3>3. CASE pc[c] = "failed"
      BY <3>1, <3>2, <3>3
    <3>4. CASE pc[c] # "failed"
      BY <2>1, <3>1, <3>2, <3>4, Refusals
    <3> QED BY <3>3, <3>4
  <2> QED BY <2>1, ReasonsKept
<1>3. Reasoned => RefusedForAReason
  BY DEF RefusedForAReason, RefusedWithoutReason, InOrder, Reason
<1> HIDE DEF Reasoned
<1> QED BY <1>1, <1>2, <1>3, SignInInvariance, PTL DEF SignInSpec
=============================================================================
