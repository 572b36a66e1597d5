--------------------------- MODULE MCBackendCache ---------------------------
(* BackendCache on three threads.  The hosts are generations of x86 CPUs, one  *)
(* whose AVX2 is not matched by SSSE3 (a build with +avx2 on a probe that      *)
(* hides it), an AArch64 CPU and a WebAssembly target.                         *)
EXTENDS BackendCache, TLC

CONSTANTS t1, t2, t3

ThreeThreads == {t1, t2, t3}
ThreadSymmetry == Permutations(Threads)

Sse == {"sse2", "ssse3", "sse4.1"}
SomeHosts ==
  {{}, {"sse2"}, {"sse2", "ssse3"}, Sse, {"sse2", "avx2"}, Sse \cup {"avx2"},
   Sse \cup {"avx2", "avx512f"}, Sse \cup {"avx2", "avx512f", "avx512vl"},
   {"neon"}, {"simd128"}}
=============================================================================
