---------------------------- MODULE MCByteStream ----------------------------
(* One message of every layout, numbers at both ends of their range, empty *)
(* strings, and listings that just fit and do not fit a frame.             *)
EXTENDS ByteStream

Entry(name) == <<1, 17, 255, 18, name>>

Samples ==
  { <<"Pwd", << >> >>, <<"ListDir", << << >> >> >>, <<"Copy", << <<1>>, <<2, 3>> >> >>,
    <<"Upload", << <<4>>, 18, 255, 3>> >>, <<"Download", << <<5>>, 1>> >>,
    <<"MTU", <<15, 1, 33>> >>, <<"Error", <<7, <<1, 2>> >> >>,
    <<"DirListing", << <<9>>, << Entry(<<8>>) >> >> >>,
    <<"DirListing", << << >>, << Entry(<< >>), Entry(<<6>>) >> >> >>,
    <<"FileInfo", <<0, 0, 16, 1, <<3>> >> >>, <<"DataChunk", <<16, 255, <<1, 0>> >> >>,
    <<"CompressedChunk", <<0, 16, 2, << >> >> >>, <<"ExecOutput", <<2, <<15>> >> >>,
    <<"ExecExit", <<-1>> >>, <<"ExecExit", <<127>> >> }
=============================================================================
