-------------------------- MODULE RewrittenBuilds --------------------------
(***************************************************************************)
(* The binaries LinuxRun and RewrittenRun execute: what the compiler made  *)
(* (orig, with the typing disc), what a safe rewriting made of it (code),  *)
(* and where it starts.                                                    *)
(***************************************************************************)
EXTENDS CallConvention

CONSTANTS Builds,
          MaxDepth   \* bound: how deep calls may nest at run time

Build == [orig : Image, code : Image, disc : [Code -> Disc], entry : Code]

SafeBuild(b) == /\ b \in Build
                /\ b.disc[b.entry] = "dead"
                /\ Compiled(b.orig, b.disc)
                /\ RewrittenSafely(b.orig, b.disc, b.code)

ASSUME BuildsAssumption == \A b \in Builds : SafeBuild(b)
ASSUME DepthAssumption  == MaxDepth \in Nat
=============================================================================
