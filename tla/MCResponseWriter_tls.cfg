SPECIFICATION WriterSpec
CONSTANTS
  Transports = {"tls"}
  FileSizes = {3}
  TextSize = 2
  HeaderSize = 2
  Room = 2
  Blank = Blank
  Junk = Junk
  NoRange = NoRange
  MaxAnswers = 2
  MaxChanges = 0
PROPERTIES RequestsRead
