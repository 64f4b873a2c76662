---------------------------- MODULE MCTxLifecycle ----------------------------
(* Instances of TxLifecycle for TLC: the permissions callers ask for. *)
EXTENDS TxLifecycle

CONSTANTS k1, k2

Weighted(k, w) == [address |-> k, weight |-> w]

Asked(type, id, threshold, keys, operations) ==
  [type |-> type, id |-> id, threshold |-> threshold, keys |-> keys,
   operations |-> operations]

\* Alone with threshold 1; two keys that must sign together; the same address
\* twice; a sum beyond MaxInt64 = 4; no key.
AskedKeys(type, operations) ==
  {Asked(type, 0, 1, <<Weighted(k1, 1)>>, operations),
   Asked(type, 0, 3, <<Weighted(k1, 1), Weighted(k2, 2)>>, operations),
   Asked(type, 0, 3, <<Weighted(k2, 1), Weighted(k2, 2)>>, operations),
   Asked(type, 0, 1, <<Weighted(k1, 4), Weighted(k2, 1)>>, operations),
   Asked(type, 0, 1, <<>>, operations)}

AskedOwners == AskedKeys("Owner", {})

\* Also one that either key may use with id 2, one with an id that no active
\* permission can have, and one typed Owner.
AskedActives ==
  AskedKeys("Active", {"deploy"})
  \cup {Asked("Active", 2, 1, <<Weighted(k1, 1), Weighted(k2, 2)>>, {"transfer", "update"}),
        Asked("Active", 1, 1, <<Weighted(k1, 1)>>, {"deploy"}),
        Asked("Owner", 0, 1, <<Weighted(k1, 1)>>, {})}

\* What a service asks about: one type, or two.
AskedTypes == {{"deploy"}, {"transfer", "update"}}

\* One key that suffices, one with too little weight, and two keys.
AskedWitnesses ==
  {Asked("Witness", 1, 1, <<Weighted(k2, 1)>>, {}),
   Asked("Witness", 1, 2, <<Weighted(k2, 1)>>, {}),
   Asked("Witness", 1, 2, <<Weighted(k1, 1), Weighted(k2, 1)>>, {})}

\* None, one, and one more than MaxActives = 1.
AskedActiveLists ==
  {<<>>} \cup {<<p>> : p \in AskedActives}
  \cup {<<Asked("Active", 0, 1, <<Weighted(k1, 1)>>, {"deploy"}),
          Asked("Active", 0, 1, <<Weighted(k2, 1)>>, {"deploy"})>>}

\* The plain update: one key that suffices, as owner and for deployments.
PlainOwner == Asked("Owner", 0, 1, <<Weighted(k1, 1)>>, {})
PlainActives == <<Asked("Active", 0, 1, <<Weighted(k1, 1)>>, {"deploy"})>>

\* Every variation of one part of the plain update.
AskedUpdates ==
  [owner: AskedOwners, witness: {None}, actives: {PlainActives}]
  \cup [owner: {PlainOwner}, witness: {None}, actives: AskedActiveLists]
  \cup [owner: {PlainOwner}, witness: AskedWitnesses, actives: {PlainActives}]
=============================================================================
