SPECIFICATION Spec
CONSTANTS
  a = a  b = b  s1 = s1  s2 = s2  h = h  ca = ca  cb = cb
  Target = {a, b}
  Scrape = {s1, s2}
  Caller <- MCCaller
  Host <- MCHost
  Certificate <- MCCertificate
  Plain = Plain
  EnablePing = {a}
  Settings <- MCSettings
  Collectors = 2
  Header = {0, 2}
  MaxTime = 3
  MaxUpsets = 1
  Nil = Nil
INVARIANTS TypeOK
PROPERTIES UpTellsTruth HerdAvoided GateOpens ScrapesInTime
SYMMETRY Symmetry
CHECK_DEADLOCK FALSE
