------------------------------- MODULE MCSignIn -------------------------------
(* Instances of SignIn for TLC.                                             *)
EXTENDS SignIn

CONSTANTS i1, i2, i3, b1, b2, b3, b4, e1, n1, n2, n3

\* i1 signs in twice, the others once, of which i3 in a run of its own.
MCIdentityOf ==
    [c \in Callbacks |-> IF c = b3 THEN i2 ELSE IF c = b4 THEN i3 ELSE i1]

MCProviderOf ==
    [i \in Identities |-> IF i = i1 THEN "github" ELSE
                          IF i = i2 THEN "wechat" ELSE "workchat"]

MCEmailsOf ==
    [i \in Identities |-> IF i = i1 THEN {e1, NoEmail} ELSE {NoEmail}]

MCFirstProfile ==
    [i \in Identities |-> IF i = i1 THEN [email |-> e1, name |-> n1]
                          ELSE [email |-> NoEmail, name |-> n2]]

\* The two sign-ins of i1 ask for different types; one type is made of two
\* parts with a separator.
MCAskedOf ==
    [c \in Callbacks |-> IF c = b1 THEN <<"client">> ELSE <<"merchant", "|", "vip">>]

MCStateOf == [c \in Callbacks |-> <<"s">>]

\* The frontend's state alone, with no type of account.
MCOtherStates == {<<"s">>}
=============================================================================
