-------------------------- MODULE MCRequestParser --------------------------
(* The tokens of the inputs: in every state one at least of each kind that *)
(* the parser tells apart there.                                           *)
EXTENDS RequestParser

PartLengths ==
  [method |-> 1, uri |-> 3, name |-> 1, value |-> 2, chunkSizeStr |-> 1, content |-> 2]

Tokens ==
  [RequestMethodStart            |-> {"GET", "POST", " "},
   RequestMethod                 |-> {" ", "g", "\r"},
   RequestUriStart               |-> {"http://h/", "/p", "\n"},
   RequestUri                    |-> {" ", "\r", "\n", "?", "q"},
   RequestHttpVersion            |-> {"HTTP/", "g"},
   RequestHttpVersion_majorStart |-> {"1", "g"},
   RequestHttpVersion_major      |-> {".", "1", "g"},
   RequestHttpVersion_minorStart |-> {"1", "g"},
   RequestHttpVersion_minor      |-> {"\r", "0", "g"},
   ResponseHttpVersion_newLine   |-> {"\n", "g"},
   HeaderLineStart               |-> {"\r", " ", "Content-Length", "transfer-encoding",
                                      "Range", "Connection", ":"},
   HeaderName                    |-> {":", "n", "8bit"},
   SpaceBeforeHeaderValue        |-> {" ", "g"},
   HeaderValue                   |-> {"\r", "\n", "2", "chunked", "99999999999999999999"},
   HeaderLws                     |-> {" ", "\r", "\n", "g"},
   ExpectingNewline_2            |-> {"\n", "g"},
   ExpectingNewline_3            |-> {"\n", "g"},
   Post                          |-> {"g", "\r", "\n"},
   ChunkSize                     |-> {"1", "g", "99999999999999999999", ";", "\r", "\n"},
   ChunkExtensionName            |-> {"g", "=", "\r", "\n"},
   ChunkExtensionValue           |-> {" ", "\r", "\n"},
   ChunkSizeNewLine              |-> {"\n", "g"},
   ChunkSizeNewLine_2            |-> {"\r", "g", "\n"},
   ChunkSizeNewLine_3            |-> {"\n", "g"},
   ChunkTrailerName              |-> {"g", ":", " "},
   ChunkTrailerValue             |-> {" ", "\r", "\n"},
   ChunkData                     |-> {"g", "\r", "\n"},
   ChunkDataNewLine_1            |-> {"\r", "g"},
   ChunkDataNewLine_2            |-> {"\n", "g"}]
=============================================================================
