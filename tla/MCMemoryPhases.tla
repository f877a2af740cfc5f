--------------------------- MODULE MCMemoryPhases ---------------------------
(***************************************************************************)
(* An instance of MemoryPhases for TLC: an intent, copies of it that were  *)
(* edited or moved to another tenant, one that reuses its id or its key,   *)
(* one without a correlation id, one that validate_record refuses.         *)
(***************************************************************************)
EXTENDS MemoryPhases

CONSTANTS a, b, here, there, nowhere, plain, edited

Record(id, key, context, content, sound) ==
  [id |-> [kind |-> "own", name |-> id], key |-> [kind |-> "own", name |-> key],
   type |-> "intent", context |-> context, content |-> content,
   status |-> "pending", sources |-> <<>>, sound |-> sound]

Intent == Record(a, a, here, plain, TRUE)
Moved == Record(a, a, there, plain, TRUE)
SameId == Record(a, b, here, edited, TRUE)
SameKey == Record(b, a, here, plain, TRUE)
Other == Record(b, b, here, edited, TRUE)
Untraced == Record(b, b, nowhere, plain, TRUE)
Unsound == Record(b, b, here, plain, FALSE)

MCInputs ==
  {<<Intent>>, <<Moved>>, <<SameId>>, <<SameKey>>, <<Untraced>>, <<Unsound>>,
   <<Intent, Other>>, <<Intent, Untraced>>}
=============================================================================
