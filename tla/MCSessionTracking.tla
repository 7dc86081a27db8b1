------------------------- MODULE MCSessionTracking -------------------------
(***************************************************************************)
(* Small instances of SessionTracking.                                     *)
(***************************************************************************)
EXTENDS SessionTracking

CONSTANTS f1, f2

\* Flow f1 is a-v, translated to a-s; f2 takes over its tuple with a new
\* identifier, with the same identifier, or uses a tuple that f1's translation
\* shows; or an identifier comes back with another tuple.
Entry(id, start, orig, reply) == [id |-> id, start |-> start, orig |-> orig, reply |-> reply]

First == Entry(1, 1, <<"a", "v">>, <<"s", "a">>)

Second(id, orig, reply) ==
  [f \in {f1, f2} |-> IF f = f1 THEN First ELSE Entry(id, 2, orig, reply)]

Takeover == Second(2, <<"a", "v">>, <<"s", "a">>)
Twin     == Second(1, <<"a", "v">>, <<"s", "a">>)
Alias    == Second(2, <<"a", "s">>, <<"s", "c">>)
SameID   == Second(1, <<"b", "s">>, <<"s", "b">>)

Kernel(key0, stamp0, aliases0, env0) ==
  [key |-> key0, stamp |-> stamp0, aliases |-> aliases0, env |-> env0]

MCScenarios ==
  {Kernel(Twin, "on", 8, {"expiry"}), Kernel(Twin, "on", 8, {"refresh"}),
   Kernel(Takeover, "off", 8, {"expiry"}), Kernel(Takeover, "partial", 8, {"failure", "cut"}),
   Kernel(Twin, "partial", 1, {"failure"}), Kernel(Alias, "off", 8, {"update"}),
   Kernel(SameID, "on", 8, {"cut"})}

\* Kernels that fall silent: no updates for ever, no dumps cut short for ever.
MCConverging ==
  {Kernel(Twin, "partial", 1, {"failure"}), Kernel(Takeover, "off", 8, {"failure"}),
   Kernel(Alias, "off", 8, {})}
=============================================================================
