---------------------------- MODULE DynamicString ----------------------------
(***************************************************************************)
(* DynamicString of src/src/dynamic_string.hpp as operators on a record    *)
(* [capacity, size]: capacity_ and buffer_end_ - buffer_start_.  The bytes *)
(* are left out; a printf argument list is represented by nchars, the      *)
(* number of characters snprintf reports for it, which does not depend on  *)
(* the room it is given.  The retry loop of printf() is one test per pass, *)
(* so a module that drives a buffer takes each pass as a step of its own   *)
(* (module HttpResponse).                                                  *)
(***************************************************************************)
EXTENDS Naturals

(* DynamicString(capacity): an empty buffer of the given capacity.        *)
NewBuffer(capacity) == [capacity |-> capacity, size |-> 0]

(* clear(): buffer_end_ = buffer_start_.                                   *)
Clear(b) == [b EXCEPT !.size = 0]

(* resize(sz): copies the current bytes into a new allocation of sz      *)
(* bytes and keeps size().                                                  *)
Resize(b, sz) == [b EXCEPT !.capacity = sz]

(* snprintf is given capacity_ - size() bytes, one of them for the NUL.   *)
Room(b) == b.capacity - b.size

(* Fault variant: the truncation test misses the byte the NUL needs.       *)
TruncatedNoNul(b, nchars) == nchars > Room(b)

(* printf's test after snprintf: nchars >= capacity_ - size() means the    *)
(* text (and its NUL) did not fit and was cut.                              *)
Truncated(b, nchars) == nchars >= Room(b)

(* Fault variant: new_sz is always nchars + size(), never doubled.         *)
GrowToExact(b, nchars) == nchars + b.size

(* The capacity printf asks resize() for: nchars + size(), raised to twice *)
(* the capacity when that is more and the capacity is at most 512 bytes.   *)
GrowTo(b, nchars) ==
    IF nchars + b.size < b.capacity * 2 /\ b.capacity <= 512
      THEN b.capacity * 2
      ELSE nchars + b.size

(* The pass of printf() that found the text cut: resize(new_sz), retry.   *)
PrintfGrown(b, nchars) == Resize(b, GrowTo(b, nchars))

(* The pass that found it whole: buffer_end_ += nchars.                    *)
PrintfWritten(b, nchars) == [b EXCEPT !.size = @ + nchars]
=============================================================================
