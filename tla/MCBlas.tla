------------------------------- MODULE MCBlas -------------------------------
(* The libraries that are installed, and what they lack, as inputs of Blas. *)
Sets == {cpu \cup other :
             cpu \in SUBSET {"mkl", "openblas", "libcblas"},
             other \in {{}, {"rocblas"}, {"rocblas", "rocsolver"}, {"cublas", "cusolver"}}}

Lacks == SUBSET ({"mkl", "openblas"} \X {"blas", "lapack"})
           \cup {{<<"rocblas", "blas">>}, {<<"rocsolver", "lapack">>}}

Matrices == {"gemm", "syrk", "trsm", "potrf"}
=============================================================================
