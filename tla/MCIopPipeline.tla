---------------------------- MODULE MCIopPipeline ----------------------------
(***************************************************************************)
(* Instances of the front end: circuits over integers of two blocks, by    *)
(* how often each function of the Builder is called, in every order and    *)
(* with every choice of what was handed out before.                        *)
(***************************************************************************)
EXTENDS IopPipeline

MCCommutative == {<<"add_ct", 0>>}

Functions == {"ciphertext_input", "plaintext_input", "ciphertext_output", "inspect",
              "block_let", "block_op", "ciphertext_split", "plaintext_split",
              "ciphertext_join"}

Calls(calls) == calls @@ [f \in Functions |-> 0]

(* One join and one output, and whatever else is given.                    *)
With(calls) == Calls(calls @@ "ciphertext_join" :> 1 @@ "ciphertext_output" :> 1)

MCBudgets ==
  {With("ciphertext_input" :> 1 @@ "ciphertext_split" :> 2 @@ "ciphertext_join" :> 2),
   With("ciphertext_input" :> 1 @@ "ciphertext_split" :> 1 @@ "ciphertext_join" :> 2
        @@ "ciphertext_output" :> 2),
   With("ciphertext_input" :> 1 @@ "ciphertext_split" :> 1 @@ "inspect" :> 2),
   With("ciphertext_input" :> 1 @@ "ciphertext_split" :> 1 @@ "block_op" :> 1),
   With("block_let" :> 1 @@ "block_op" :> 2),
   With("plaintext_input" :> 1 @@ "plaintext_split" :> 1 @@ "block_let" :> 1
        @@ "block_op" :> 1),
   With("block_let" :> 2 @@ "block_op" :> 1)}

(* The circuits of the finding: an input that is an output as it is.       *)
UnchangedBudgets == {Calls("ciphertext_input" :> 1 @@ "ciphertext_output" :> 1)}
=============================================================================
