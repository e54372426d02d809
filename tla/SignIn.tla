-------------------------------- MODULE SignIn --------------------------------
(***************************************************************************)
(* Signing in with an OAuth provider: services/oauth_service.go and the    *)
(* handlers OAuthLogin and OAuthCallback, around Accounts, and the look-up *)
(* of AuthMiddleware.                                                      *)
(*                                                                         *)
(* The server keeps nothing between OAuthLogin and OAuthCallback: the type *)
(* of account that was asked for travels to the provider and back in the   *)
(* state parameter, and nothing ties a callback to an OAuthLogin.  Which   *)
(* function asks which provider for the profile depends on names and on    *)
(* marks in the token.                                                     *)
(***************************************************************************)
EXTENDS Accounts

CONSTANTS
    Configured,     \* the providers of the configuration (WeChat's with the
                    \* scope snsapi_login, without which OAuthLogin refuses)
    ProviderOf,     \* the provider of each identity
    NoEmail,        \* the empty string
    Sep,            \* "|"
    StateOf,        \* the state the frontend makes for each sign-in
    AskedOf,        \* the type of account it asks for
    OtherStates,    \* what else may come as the state of a callback
    MaxOutages      \* bound: calls of a provider that fail

ASSUME SignInAssumption ==
    /\ ProviderOf \in [Identities -> STRING]
    /\ NoEmail \in Emails
    /\ StateOf \in [Callbacks -> Seq(STRING)]
    /\ AskedOf \in [Callbacks -> Seq(STRING)]
    /\ OtherStates \subseteq Seq(STRING)
    /\ Sep \in STRING
    /\ MaxOutages \in Nat
    \* WeChat's answer has no email (oauth_service.go:557).
    /\ \A i \in Identities : ProviderOf[i] = "wechat" => EmailsOf[i] = {NoEmail}
    /\ \A i \in Identities : FirstProfile[i].email \in EmailsOf[i]

VARIABLES
    state,      \* the state its callback came with, once its code is exchanged
    token,      \* what ExchangeCode returned, by the marks in its Extra
    types,      \* User.Type of each account
    outages

signInVars == <<state, token, outages>>
allVars == <<vars, signInVars, types>>

Tokens == {"none", "plain", "wechat", "enterprise"}

SignInTypeOK ==
    /\ TypeOK
    /\ state \in [Callbacks -> Seq(STRING)]
    /\ token \in [Callbacks -> Tokens]
    /\ types \in [DOMAIN users -> Seq(STRING)]
    /\ outages \in 0..MaxOutages

SignInInit ==
    /\ Init
    /\ state = [c \in Callbacks |-> <<>>]
    /\ token = [c \in Callbacks |-> "none"]
    /\ types = <<>> /\ outages = 0

Provider(c) == ProviderOf[IdentityOf[c]]

\* The state that an address made by OAuthLogin carries.
Combined(c) == StateOf[c] \o <<Sep>> \o AskedOf[c]

\* OAuthLogin changes nothing: it answers with an address or, if the provider
\* is not configured, with an error.  These are the states its answers carry.
OAuthLogin(c) == IF Provider(c) \in Configured THEN {Combined(c)} ELSE {}

\* Slip: strings.Cut at the last separator.
AfterLast(s) ==
    LET seps == {k \in DOMAIN s : s[k] = Sep}
        last == CHOOSE k \in seps : \A j \in seps : j <= k
    IN  IF seps = {} THEN <<>> ELSE SubSeq(s, last + 1, Len(s))

\* What follows the first separator: the second result of strings.Cut.
AfterCut(s) ==
    LET seps == {k \in DOMAIN s : s[k] = Sep}
        first == CHOOSE k \in seps : \A j \in seps : k <= j
    IN  IF seps = {} THEN <<>> ELSE SubSeq(s, first + 1, Len(s))

\* Slip: the handler goes on after it has answered with the error.
RefuseAndGoOn(c) == Goto(c, "find", 0) /\ UNCHANGED info

\* The handler answers with an error before it has looked for the account.
Refuse(c) == Goto(c, "failed", 0) /\ UNCHANGED info

Outage == outages < MaxOutages /\ outages' = outages + 1

-----------------------------------------------------------------------------
\* A token of an enterprise carries the access token of the enterprise; one
\* of WeChat is marked if the answer has an openid.
Marks(provider) ==
    CASE provider = "workchat" -> {"enterprise"}
      [] provider = "wechat" -> {"wechat", "plain"}
      [] OTHER -> {"plain"}

\* The callback may come with any state, or without OAuthLogin, which leaves
\* nothing behind to compare with.
ExchangeCode(c) ==
    /\ pc[c] = "fetch" /\ token[c] = "none"
    /\ \/ /\ Provider(c) \in Configured
          /\ \E s \in OAuthLogin(c) \cup OtherStates : state' = [state EXCEPT ![c] = s]
          /\ \E t \in Marks(Provider(c)) : token' = [token EXCEPT ![c] = t]
          /\ UNCHANGED <<pc, row, info, outages>>
       \/ /\ Provider(c) \notin Configured
          /\ Refuse(c)
          /\ UNCHANGED <<state, token, outages>>
       \/ Outage /\ Refuse(c) /\ UNCHANGED <<state, token>>
    /\ UNCHANGED <<profile, users, tokens, changes, failures, called, types>>

\* getGoogleUserInfo and getFacebookUserInfo assert that there is an email;
\* getCustomUserInfo only returns an error.
AnswerReadable(provider, email) ==
    \/ provider = "github"
    \/ provider \in {"google", "facebook"} /\ email # NoEmail

\* The function getEnWeChatUserInfo comes to.
WeChatReader(t) == IF t = "enterprise" THEN "workchat" ELSE "wechat"

\* getEnterpriseWeChatUserInfo expects a string where ExchangeCode has put
\* the number of the agent.
WeChatReadable(reader) == reader = "wechat"

\* Slip: GetUserInfo has no case for wechat.
ReadableUnnamed(provider, t, email) ==
    IF provider = "en_workchat" THEN WeChatReadable(WeChatReader(t))
    ELSE AnswerReadable(provider, email)

Readable(provider, t, email) ==
    IF provider \in {"wechat", "en_workchat"} THEN WeChatReadable(WeChatReader(t))
    ELSE AnswerReadable(provider, email)

GetUserInfo(c) ==
    LET p  == profile[IdentityOf[c]]
        ok == Readable(Provider(c), token[c], p.email)
    IN
    /\ pc[c] = "fetch" /\ token[c] # "none"
    /\ \/ /\ ok
          /\ info' = [info EXCEPT ![c] = p]
          /\ Goto(c, "find", 0)
          /\ UNCHANGED outages
       \/ ~ok /\ Refuse(c) /\ UNCHANGED outages
       \/ Outage /\ Refuse(c)
    /\ UNCHANGED <<profile, users, tokens, changes, failures, called,
                   state, token, types>>

\* An account that is made gets the type that came with its callback.
CreateTyped(c) ==
    /\ Create(c)
    /\ types' = IF users' = users THEN types
                ELSE Append(types, AfterCut(state[c]))
    /\ UNCHANGED signInVars

\* RegisterLocal sets no type.
RegisterUntyped(p) ==
    /\ Register(p)
    /\ types' = Append(types, <<>>)
    /\ UNCHANGED signInVars

SignInNext ==
    \/ \E c \in Callbacks : ExchangeCode(c) \/ GetUserInfo(c)
    \/ \E c \in Callbacks :
           (Find(c) \/ Save(c)) /\ UNCHANGED <<signInVars, types>>
    \/ \E c \in Callbacks : CreateTyped(c)
    \/ \E p \in Profiles : RegisterUntyped(p)
    \/ \E u \in DOMAIN users : Login(u) /\ UNCHANGED <<signInVars, types>>
    \/ \E t \in tokens : RefreshToken(t) /\ UNCHANGED <<signInVars, types>>
    \/ \E i \in Identities : ChangeProfile(i) /\ UNCHANGED <<signInVars, types>>

SignInSpec == SignInInit /\ [][SignInNext]_allVars

-----------------------------------------------------------------------------
(* AuthMiddleware: the account c.Get("user") is set to.                    *)

\* Slip: the account with the email of the claims.
AuthenticateByEmail(t) ==
    IF EmailTaken(t.email)
    THEN CHOOSE u \in DOMAIN users : users[u].email = t.email ELSE 0

Authenticate(t) == IF t.user \in DOMAIN users THEN t.user ELSE 0

-----------------------------------------------------------------------------
(* Properties.                                                             *)

\* What is checked of Accounts on its own holds of the whole sign-in.
ImplementsAccounts == Spec

\* An account that a provider vouches for has the type that one of its
\* identity's callbacks came with (auth_handler.go:59, 77), whatever other
\* sign-ins are under way; and if that callback came with the state that its
\* OAuthLogin composed (auth_handler.go:41), it is the type that was asked for
\* there.  The premise is that the frontend's states have no separator.
TypeAsAsked ==
    (\A c \in Callbacks : \A k \in DOMAIN StateOf[c] : StateOf[c][k] # Sep) =>
        \A u \in DOMAIN users : users[u].identity # Local =>
            \E c \in Callbacks :
                /\ IdentityOf[c] = users[u].identity /\ token[c] # "none"
                /\ types[u] = AfterCut(state[c])
                /\ state[c] = Combined(c) => types[u] = AskedOf[c]

\* A callback that was turned away although the network and the database have
\* worked so far, its provider is configured, and no other account has, or has
\* had, the email (which may be none) or the name.
RefusedWithoutReason(c) ==
    /\ pc[c] = "failed" /\ outages = 0 /\ failures = 0
    /\ Provider(c) \in Configured
    /\ \A t \in tokens : t.email # info[c].email
    /\ ~NameTaken(info[c].name)

\* Nobody is turned away without a reason by Google, GitHub, Facebook or the
\* personal WeChat, of which Google and Facebook must give an email
\* (oauth_service.go:341, 401).  Of the enterprise WeChat, EnterpriseSignsIn
\* says the same and fails; the other providers of a configuration are always
\* refused (oauth_service.go:408-414).
RefusedForAReason ==
    \A c \in Callbacks :
        /\ Provider(c) \in {"google", "github", "facebook", "wechat"}
        /\ Provider(c) \in {"google", "facebook"} => NoEmail \notin EmailsOf[IdentityOf[c]]
        => ~RefusedWithoutReason(c)

\* "getEnWeChatUserInfo ... supports enterprise WeChat (workchat) and personal
\* WeChat (wechat)" (oauth_service.go:424): nobody is turned away by workchat
\* without a reason either.
EnterpriseSignsIn ==
    \A c \in Callbacks : Provider(c) = "workchat" => ~RefusedWithoutReason(c)

\* A token stands for one account as long as it is kept: emails may change,
\* be given up and be taken by others meanwhile (customer_middleware.go:44).
TokensKeepTheirAccount ==
    [][\A t \in tokens :
           /\ Authenticate(t) \in DOMAIN users
           /\ Authenticate(t)' = Authenticate(t)
           /\ users'[Authenticate(t)].identity = users[Authenticate(t)].identity]_allVars

(* Inductive strengthening, for the proofs of SignInProofs.                *)

\* A callback that looks for its account has exchanged its code, and each
\* account's type is from the state that one of its identity's came with.
TypeInv ==
    /\ \A c \in Callbacks :
           pc[c] \notin {"fetch", "failed"} => token[c] # "none"
    /\ \A u \in DOMAIN users : users[u].identity # Local =>
           \E c \in Callbacks : /\ IdentityOf[c] = users[u].identity
                                /\ token[c] # "none"
                                /\ types[u] = AfterCut(state[c])

\* What refusals go back to: the emails of providers and accounts, and marks
\* that fit the provider.
ReasonInv ==
    /\ \A i \in Identities : profile[i].email \in EmailsOf[i]
    /\ \A u \in DOMAIN users : \E t \in tokens : t.email = users[u].email
    /\ \A c \in Callbacks : token[c] \in {"none"} \cup Marks(Provider(c))
=============================================================================
