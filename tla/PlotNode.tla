------------------------------ MODULE PlotNode ------------------------------
(***************************************************************************)
(* The visualizer (launch/visualize_iio_waveform.py): a message of samples *)
(* becomes one curve for each channel.  A message is a record of layout,   *)
(* <<dim[0].size, dim[1].size>>, and data, counted from 0 as in Python.    *)
(***************************************************************************)
EXTENDS Integers

Columns(msg) == msg.layout[1]
Rows(msg)    == msg.layout[2]

(* len(data) == m * n                                                      *)
Accepts(msg, length) == length = Rows(msg) * Columns(msg)

(* Mutant: the message is taken to hold one channel after the other.       *)
MatrixRowMajor(msg) ==
    [row \in 0..(Rows(msg) - 1) |->
        [col \in 0..(Columns(msg) - 1) |-> msg.data[col + row * Columns(msg)]]]

(* index = row + col * m                                                   *)
Matrix(msg) ==
    [row \in 0..(Rows(msg) - 1) |->
        [col \in 0..(Columns(msg) - 1) |-> msg.data[row + col * Rows(msg)]]]

=============================================================================
