-------------------------- MODULE MCIndexAllocator --------------------------
(* A small allocator: 4 chunks of 4 bits, first desired maximum 5.          *)
EXTENDS IndexAllocator
=============================================================================
