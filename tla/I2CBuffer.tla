------------------------------ MODULE I2CBuffer ------------------------------
(***************************************************************************)
(* class I2CBuffer (imx_rt1060_i2c_driver.h): the cursor a driver keeps    *)
(* over a caller's array.  Bytes are not modelled, only how many there are *)
(* and how far the cursor has moved, so "write" and "read" are the steps   *)
(* of next_index.  initialise() is one step where no ISR can come between  *)
(* its three assignments: in the ISR, and in the master, which calls it    *)
(* before it asks the peripheral to move data.                             *)
(***************************************************************************)
EXTENDS Naturals

Buffer == [size : Nat, next_index : Nat]

NoBuffer == [size |-> 0, next_index |-> 0]

initialise(new_size) == [size |-> new_size, next_index |-> 0]

initialised(b) == b.size > 0

reset(b) == [b EXCEPT !.next_index = 0]

get_bytes_transferred(b) == b.next_index

\* not_started_writing() and not_started_reading()
not_started(b) == b.next_index = 0

\* finished_writing() and finished_reading()
all_done(b) == b.next_index = b.size

\* Mutation: off by one at the end of the buffer.
has_data_available_closed(b) == b.next_index <= b.size

has_data_available(b) == b.next_index < b.size

bytes_left(b) == b.size - b.next_index

\* Mutation: write() does not look whether there is room.
write_unchecked(b) == [b EXCEPT !.next_index = @ + 1]

\* write() refuses a byte that does not fit.
write(b) == IF all_done(b) THEN b ELSE [b EXCEPT !.next_index = @ + 1]

\* k calls of read(), which trusts its caller to have checked has_data_available().
read(b, k) == [b EXCEPT !.next_index = @ + k]
==============================================================================
