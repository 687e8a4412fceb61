-------------------------- MODULE MCRewrittenRun ---------------------------
(***************************************************************************)
(* Compiled programs and all their safe rewritings.                        *)
(***************************************************************************)
EXTENDS RewrittenRun, MCPrograms, FiniteSets

Patches(prog, w) ==
  {Orig(prog)[w]} \cup
  {word \in {BranchTo("b", w, Handler), BranchTo("bl", w, Handler)} :
     SafePatch(Orig(prog), DiscOf(prog), w, word)}

Svcs(prog) == {w \in Code : Cell(prog, w).op = "svc"}

Rewritings(prog) ==
  LET some == [Svcs(prog) -> UNION {Patches(prog, w) : w \in Svcs(prog)}]
  IN  {[w \in Code |-> IF w \in Svcs(prog) THEN c[w] ELSE Orig(prog)[w]] :
         c \in {c \in some : \A w \in Svcs(prog) : c[w] \in Patches(prog, w)}}

MCBuilds ==
  UNION {{[orig |-> Orig(prog), code |-> code, disc |-> DiscOf(prog),
           entry |-> First] : code \in Rewritings(prog)} :
         prog \in {Wrapper, Recursive, TailCall, Wrapped, NoReturn, Abort,
                  TwoExits}}
=============================================================================
