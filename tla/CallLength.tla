------------------------------ MODULE CallLength ------------------------------
(***************************************************************************)
(* The length mutate is given by the two post-call hooks of               *)
(* src/fuzzer/fuzzer.cpp.                                                  *)
(*                                                                         *)
(*  - wrap_post_Generic: a read of nNumberOfBytesToRead bytes is clamped   *)
(*    to *lpNumberOfBytesRead when the hooked function reports its count   *)
(*    through that pointer; the pre-hook leaves the pointer NULL for       *)
(*    functions that report no count.                                      *)
(*  - wrap_post_MapViewOfFile: a view of dwNumberOfBytesToMap = 0 bytes    *)
(*    maps the whole file, and the length becomes the RegionSize           *)
(*    dr_virtual_query reports: the view rounded up to whole pages.  A     *)
(*    view whose file name GetMappedFileName cannot resolve (a failed map  *)
(*    returns NULL) is not mutated.                                        *)
(*                                                                         *)
(* Whether a call is targeted, and the mutation itself, are FuzzerSession's *)
(* concern; here every call that reaches mutate is recorded with the      *)
(* length it was given.                                                    *)
(***************************************************************************)
EXTENDS Naturals, Sequences

CONSTANTS
  MaxLen,         \* largest byte count of a call
  PageSize,       \* the allocation granularity of a view
  CountReported,  \* whether the pre-hook may leave lpNumberOfBytesRead NULL
  MaxCalls        \* bound on the calls of a run

(* The constants are used with MaxLen, MaxCalls \in Nat, PageSize \in    *)
(* Nat \ {0} and CountReported a non-empty subset of BOOLEAN.             *)

\* The smallest multiple of PageSize that is at least n.
RoundUp(n) == ((n + PageSize - 1) \div PageSize) * PageSize

VARIABLES
  mutations  \* per call that reached mutate: its kind, request, bytes produced, length

vars == <<mutations>>

\* Variant of the generic hook without the clamp.
GenericLengthNoClamp(n, hasCount, read) == n

(* nNumberOfBytesToRead after the sanity clamp of wrap_post_Generic.      *)
GenericLength(n, hasCount, read) ==
  IF hasCount /\ read < n THEN read ELSE n

\* Variant that queries the region whatever length the caller gave.
MapViewLengthQueryAlways(n, view) == RoundUp(view)

(* nNumberOfBytesToRead in wrap_post_MapViewOfFile: the caller's count,   *)
(* or, when it is 0, the RegionSize of the view.                           *)
MapViewLength(n, view) == IF n = 0 THEN RoundUp(view) ELSE n

(* wrap_post_Generic for a targeted read of n bytes that produced `read`  *)
(* bytes, with or without a count pointer.                                 *)
WrapPostGeneric ==
  /\ Len(mutations) < MaxCalls
  /\ \E n \in 0..MaxLen, hasCount \in CountReported :
       \E read \in 0..n :
         mutations' = Append(mutations,
           [kind |-> "read", requested |-> n, produced |-> read,
            len |-> GenericLength(n, hasCount, read)])

(* wrap_post_MapViewOfFile for a targeted view of a file of `size` bytes  *)
(* with dwNumberOfBytesToMap = n (0: the whole file); a map that fails    *)
(* returns NULL, has no file name and is skipped.                          *)
WrapPostMapViewOfFile ==
  /\ Len(mutations) < MaxCalls
  /\ \E size \in 1..MaxLen, n \in 0..MaxLen, mapped \in BOOLEAN :
       LET view == IF n = 0 THEN size ELSE n IN
       IF mapped /\ n <= size
         THEN mutations' = Append(mutations,
                [kind |-> "map", requested |-> n, produced |-> view,
                 len |-> MapViewLength(n, view)])
         ELSE UNCHANGED mutations

\* The run has made all its calls.
AllCalls ==
  /\ Len(mutations) = MaxCalls
  /\ UNCHANGED vars

Init == mutations = <<>>

Next == WrapPostGeneric \/ WrapPostMapViewOfFile \/ AllCalls

Spec == Init /\ [][Next]_vars

-----------------------------------------------------------------------------
(* A read is never mutated over more bytes than the call actually         *)
(* produced (spec section 4.3, call-size correction): the clamp in        *)
(* wrap_post_Generic cuts the length to the reported count.                *)
MutationWithinProduced ==
  \A i \in DOMAIN mutations :
    mutations[i].kind = "read" => mutations[i].len <= mutations[i].produced

=============================================================================
