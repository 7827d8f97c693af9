------------------------------- MODULE MCStream -------------------------------
EXTENDS Stream

\* A newline, two letters.
N == 10
A == 7
B == 8

BlockSizesValue == <<4, 6, 8, 12>>
BufferSizes == {3, 8}
Formats == {ac_io_prefix, ac_io_fixed(3), ac_io_delimiter(N), ac_io_csv_delimiter(N)}

RecordsOfValue(format) ==
  CASE format = ac_io_prefix -> { <<>>, <<A, N>>, <<A, A, A, A, A, A>>, Repeat(B, 9) \o Repeat(A, 9) }
    [] format = ac_io_fixed(3) -> { <<A, A, A>>, <<A, 0, B>> }
    [] format = ac_io_delimiter(N) -> { <<>>, <<A, Quote>>, <<A, B, A, B, A, B, A, B, A>>, Repeat(A, 20) }
    [] OTHER -> { <<>>, <<Quote, N, Quote>>, <<Quote, Quote, Quote, Quote>>, <<A, B, A, B, A, B, A>> }

Plain == {ac_out_options_buffer_size(ac_out_options_format(ac_out_options_init, f), n) :
            f \in Formats, n \in BufferSizes}
Lz4(o, size, block, content) == ac_out_options_lz4(o, size, block, content)

OutsValue ==
  LET one == {o \in Plain : o.buffer_size = 3}
  IN  Plain
      \cup {ac_out_options_gz(o) : o \in one}
      \cup {Lz4(o, 1, b, c) : o \in one, b, c \in BOOLEAN}
      \cup {Lz4(o, 2, TRUE, FALSE) : o \in one}
      \cup {ac_out_options_write_ack_file(ac_out_options_safe_mode(Lz4(o, 1, TRUE, FALSE))) : o \in one}
      \cup {ac_out_options_append_mode(o) : o \in one}
      \cup {ac_out_options_write_ack_file(o) : o \in one}

InsValue ==
  { [from |-> "file", buffer_size |-> 0, compressed |-> 0],
    [from |-> "file", buffer_size |-> 11, compressed |-> 0],
    [from |-> "fd", buffer_size |-> 17, compressed |-> 11],
    [from |-> "buffer", buffer_size |-> 0, compressed |-> 0] }
==============================================================================
