----------------------------- MODULE WalletKeys -----------------------------
(***************************************************************************)
(* What key generation and resharing promise about the keys of the wallets,  *)
(* however requests, nodes and stores fail.  A key has versions; each is      *)
(* made by a committee, whose members first run a protocol with one another,  *)
(* then store their shares, each on its own disk, and then publish the key    *)
(* info, by which every node selects signers.  The wallets may have keys in   *)
(* the beginning.                                                            *)
(***************************************************************************)
VARIABLES
    made,  \* committees all of whose members ran a protocol together: <<key, committee>>
    share, \* node -> the shares on its disk: <<key, version>>
    info   \* key -> [ver, com] in Consul; no committee if there is none yet

vars == <<made, share, info>>

Init == made = {}

\* A protocol run has its last participant.
Run ==
    /\ made \subseteq made'
    /\ UNCHANGED <<share, info>>

\* A member of such a committee stores its share; those of other versions stay.
Store(k, v, n) ==
    /\ \E m \in made : m[1] = k /\ n \in m[2]
    /\ share' = [share EXCEPT ![n] = @ \cup {<<k, v>>}]
    /\ UNCHANGED <<made, info>>

\* The key info moves to a version of which a member of its committee has its share.
Save(k, v, C) ==
    /\ <<k, C>> \in made
    /\ \E n \in C : <<k, v>> \in share[n]
    /\ info' = [info EXCEPT ![k] = [ver |-> v, com |-> C]]
    /\ UNCHANGED <<made, share>>

Next ==
    \/ Run
    \/ \E n \in DOMAIN share : \E s \in share'[n] : Store(s[1], s[2], n)
    \/ \E k \in DOMAIN info : Save(k, info'[k].ver, info'[k].com)

Spec == Init /\ [][Next]_vars
=============================================================================
