CONSTANTS
  w1 = w1  r1 = r1  r2 = r2
  NoCall = NoCall
  Workers <- OneWorker
  Requests <- OneRequest
  MaxUploads = 1
  MaxAssets = 1
  MaxJobs = 1
SPECIFICATION VideosSpec
PROPERTY
  VideoSettles
CHECK_DEADLOCK FALSE
