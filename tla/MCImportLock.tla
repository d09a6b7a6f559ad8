--------------------------- MODULE MCImportLock ---------------------------
(***************************************************************************)
(* Programs for ImportLock: modules that import one another.               *)
(***************************************************************************)
EXTENDS ImportLock, TLC

First == CHOOSE t \in Threads : TRUE
Last  == CHOOSE t \in Threads \ {First} : TRUE

\* Modules and threads that import one module, or none.  Names do not matter,
\* so the first thread imports a module we choose, and only Last may be idle.
MCPrograms ==
  LET one == {<<x>> : x \in Modules}
  IN {b @@ m : b \in [Modules -> {<<>>} \cup one],
               m \in {f \in [Threads -> {<<>>} \cup one] :
                        /\ f[First] = <<CHOOSE x \in Modules : TRUE>>
                        /\ \A t \in Threads \ {Last} : f[t] # <<>>}}

\* A chain of three modules, a thread that imports each of the first two, and one
\* that imports the last and then the first.
MCChain ==
  LET m == CHOOSE f \in [1 .. 3 -> Modules] : Cardinality({f[i] : i \in 1 .. 3}) = 3
      t == CHOOSE f \in [1 .. 3 -> Threads] : Cardinality({f[i] : i \in 1 .. 3}) = 3
  IN {(m[1] :> <<m[2]>>) @@ (m[2] :> <<m[3]>>) @@ (m[3] :> <<>>) @@
      (t[1] :> <<m[1]>>) @@ (t[2] :> <<m[2]>>) @@ (t[3] :> <<m[3], m[1]>>)}

\* Loads fail in programs of two threads.
MCMayFail == {p \in MCPrograms : p[Last] = <<>>}
=============================================================================
