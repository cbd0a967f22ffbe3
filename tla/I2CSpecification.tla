-------------------------- MODULE I2CSpecification --------------------------
(***************************************************************************)
(* The limits of the I2C specification, as profile_test/                   *)
(* i2c_specification.py tabulates them, in nanoseconds and hertz.          *)
(***************************************************************************)
EXTENDS Naturals

Limits(min, max) == [min |-> min, max |-> max]
UNLIMITED == 1000000

standard_mode_spec ==
    [spike_width      |-> Limits(0, UNLIMITED),
     frequency        |-> Limits(0, 100000),
     start_hold_time  |-> Limits(4000, UNLIMITED),
     scl_low_time     |-> Limits(4700, UNLIMITED),
     scl_high_time    |-> Limits(4000, UNLIMITED),
     start_setup_time |-> Limits(4700, UNLIMITED),
     data_hold_time   |-> Limits(0, UNLIMITED),
     data_setup_time  |-> Limits(250, UNLIMITED),
     stop_setup_time  |-> Limits(4000, UNLIMITED),
     bus_free_time    |-> Limits(4700, UNLIMITED),
     data_valid_time  |-> Limits(0, 3450)]

fast_mode_spec ==
    [spike_width      |-> Limits(50, UNLIMITED),
     frequency        |-> Limits(0, 400000),
     start_hold_time  |-> Limits(600, UNLIMITED),
     scl_low_time     |-> Limits(1300, UNLIMITED),
     scl_high_time    |-> Limits(600, UNLIMITED),
     start_setup_time |-> Limits(600, UNLIMITED),
     data_hold_time   |-> Limits(0, UNLIMITED),
     data_setup_time  |-> Limits(100, UNLIMITED),
     stop_setup_time  |-> Limits(600, UNLIMITED),
     bus_free_time    |-> Limits(1300, UNLIMITED),
     data_valid_time  |-> Limits(0, 900)]

fast_mode_plus_spec ==
    [spike_width      |-> Limits(50, UNLIMITED),
     frequency        |-> Limits(0, 1000000),
     start_hold_time  |-> Limits(260, UNLIMITED),
     scl_low_time     |-> Limits(500, UNLIMITED),
     scl_high_time    |-> Limits(260, UNLIMITED),
     start_setup_time |-> Limits(260, UNLIMITED),
     data_hold_time   |-> Limits(0, UNLIMITED),
     data_setup_time  |-> Limits(50, UNLIMITED),
     stop_setup_time  |-> Limits(260, UNLIMITED),
     bus_free_time    |-> Limits(500, UNLIMITED),
     data_valid_time  |-> Limits(0, 450)]
=============================================================================
